---------------------------- MODULE Spec2Model ----------------------------
(***************************************************************************)
(* A state-machine model of ts-nvml: the lifecycle flag of the Nvml        *)
(* namespace, the lazily bound native functions underneath it, the Device  *)
(* query facade and the namespace-level aggregates.                        *)
(*                                                                         *)
(* The program is synchronous and single threaded.  A handler that makes   *)
(* one native call is one action.  A handler that makes several native     *)
(* calls is a frame on `stack` whose program counter advances by one       *)
(* native call per step; the native layer answers every call               *)
(* nondeterministically.  `trace` holds what the current top-level call    *)
(* has done at the native boundary (library loads, symbol resolutions,     *)
(* native invocations, clock reads), in order.                             *)
(*                                                                         *)
(* The client makes one top-level call at a time; when the call has        *)
(* returned or thrown it goes on (keeping the Device a lookup returned)    *)
(* and may then make the next call.  The machine is one of: no loadable    *)
(* library; a library exporting the lifecycle functions only; a complete   *)
(* library in a process that has already run init() and bound every        *)
(* native function.                                                        *)
(***************************************************************************)
EXTENDS Integers, Sequences, FiniteSets, TLC

VARIABLES
  initialized,  \* nvml.ts:24   let initialized = false
  lib,          \* library.ts:4 let lib (0 = null, n = handle of the n-th load)
  loads,        \* number of koffi.load calls that succeeded so far
  bound,        \* the module-level `_xxx: NvmlFunc | null` caches, per function
  env,          \* the machine: is the library loadable, which symbols it lacks
  held,         \* the Device object the client keeps (NoDev: none)
  call,         \* the top-level call in progress or last completed
  stack,        \* frames of the handlers in progress, innermost last
  retval,       \* value handed from a returning callee to its caller
  trace,        \* native-boundary events of the current top-level call
  outcome,      \* how the last top-level call ended
  lastLife,     \* history: the most recent lifecycle call that succeeded
  lastMiss      \* history: the function whose symbol resolution threw most recently

vars == <<initialized, lib, loads, bound, env, held, call, stack, retval,
          trace, outcome, lastLife, lastMiss>>

-----------------------------------------------------------------------------
(* Bounds of the model *)

\* Largest device count the native layer reports.
MaxCount == 2

-----------------------------------------------------------------------------
(* NvmlReturn, types/enums.ts *)

SUCCESS == 0
ERROR_UNINITIALIZED == 1
ERROR_INVALID_ARGUMENT == 2
ERROR_NOT_SUPPORTED == 3
ERROR_NOT_FOUND == 6
ERROR_FUNCTION_NOT_FOUND == 13
ERROR_GPU_IS_LOST == 15

\* The status codes the modelled native layer answers with.
NativeCodes == {SUCCESS, ERROR_UNINITIALIZED, ERROR_NOT_SUPPORTED, ERROR_GPU_IS_LOST}

nvmlErrorString(ret) ==
  CASE ret = SUCCESS -> "Success"
    [] ret = ERROR_UNINITIALIZED -> "NVML was not initialized"
    [] ret = ERROR_INVALID_ARGUMENT -> "Invalid argument"
    [] ret = ERROR_NOT_SUPPORTED -> "Operation not supported"
    [] ret = ERROR_NOT_FOUND -> "Not found"
    [] ret = ERROR_FUNCTION_NOT_FOUND -> "Function not found"
    [] ret = ERROR_GPU_IS_LOST -> "GPU is lost"
    [] OTHER -> "Unknown error code"

-----------------------------------------------------------------------------
(* Result<T> and NvmlError, types/result.ts *)

\* JavaScript null / undefined as a value of a query.
Null == "null"
Undefined == "undefined"

\* new NvmlError(code, message)
NvmlError(code, message) == [name |-> "NvmlError", code |-> code, message |-> message]

\* NvmlError.fromReturn(ret, context): message is `${context}: ${baseMessage}`
NvmlErrorFromReturn(ret, context) ==
  NvmlError(ret, <<context, nvmlErrorString(ret)>>)

\* new Error(message): carries no status code (code -1 in the model).
NoCode == -1
Error(message) == [name |-> "Error", code |-> NoCode, message |-> <<message>>]

ok(value) == [ok |-> TRUE, value |-> value]
err(error) == [ok |-> FALSE, error |-> error]
errFromReturn(ret, context) == err(NvmlErrorFromReturn(ret, context))
isSuccess(ret) == ret = SUCCESS

-----------------------------------------------------------------------------
(* The native functions the wrapper binds *)

DeviceFieldFns ==
  {"nvmlDeviceGetName", "nvmlDeviceGetUUID", "nvmlDeviceGetMemoryInfo",
   "nvmlDeviceGetUtilizationRates", "nvmlDeviceGetTemperature",
   "nvmlDeviceGetPowerUsage", "nvmlDeviceGetPowerManagementLimit",
   "nvmlDeviceGetFanSpeed", "nvmlDeviceGetPerformanceState",
   "nvmlDeviceGetPciInfo", "nvmlDeviceGetPersistenceMode",
   "nvmlDeviceGetDisplayActive", "nvmlDeviceGetComputeMode",
   "nvmlDeviceGetMigMode", "nvmlDeviceGetTotalEccErrors"}

ProcessFns ==
  {"nvmlDeviceGetComputeRunningProcesses", "nvmlDeviceGetGraphicsRunningProcesses"}

SystemFns ==
  {"nvmlSystemGetDriverVersion", "nvmlSystemGetNvmlVersion",
   "nvmlSystemGetCudaDriverVersion_v2", "nvmlSystemGetProcessName"}

LifecycleFns == {"nvmlInit", "nvmlShutdown"}

HandleFns == {"nvmlDeviceGetCount", "nvmlDeviceGetHandleByIndex", "nvmlDeviceGetHandleByUUID"}

\* The functions that write a text into a buffer the binding decodes with
\* `buffer.toString('utf8').replace(/\0/g, '')`.
TextFns ==
  {"nvmlDeviceGetName", "nvmlDeviceGetUUID", "nvmlSystemGetDriverVersion",
   "nvmlSystemGetNvmlVersion"}

Fns == LifecycleFns \cup HandleFns \cup DeviceFieldFns \cup ProcessFns \cup SystemFns

-----------------------------------------------------------------------------
(* Events of the native boundary *)

\* An event: what happened, to which function, with which integer argument,
\* the status it gave, and the count or handle it wrote (0 when it wrote none).
Ev(ev, fn, arg, ret, out) == [ev |-> ev, fn |-> fn, arg |-> arg, ret |-> ret, out |-> out]
\* findLibraryPath(): ret 0 when it returned a path, 1 when it returned null
DiscoverEv(found) == Ev("discover", "findLibraryPath", 0, IF found THEN 0 ELSE 1, 0)
\* koffi.load(path): ret 0 when it succeeded, 1 when it threw
LoadEv(okay) == Ev("load", "koffi.load", 0, IF okay THEN 0 ELSE 1, 0)
\* lib.func(signature): ret 0 when the symbol was found, 1 when it threw
ResolveEv(fn, okay) == Ev("resolve", fn, 0, IF okay THEN 0 ELSE 1, 0)
InvokeEv(fn, arg, ret, out) ==
  Ev("invoke", fn, arg, ret,
     IF fn \in HandleFns \cup TextFns \cup {"nvmlSystemGetCudaDriverVersion_v2"}
     THEN out ELSE 0)
\* new Date()
ClockEv == Ev("clock", "Date", 0, 0, 0)


-----------------------------------------------------------------------------
(* Library discovery, utils/library-path.ts *)

\* DEFAULT_LIBRARY_PATHS, in order; `bare` is !path.includes('/').
DEFAULT_LIBRARY_PATHS ==
  << [path |-> "libnvidia-ml.so.1", bare |-> TRUE],
     [path |-> "libnvidia-ml.so", bare |-> TRUE],
     [path |-> "/usr/lib/x86_64-linux-gnu/libnvidia-ml.so.1", bare |-> FALSE],
     [path |-> "/usr/lib64/libnvidia-ml.so.1", bare |-> FALSE],
     [path |-> "/usr/lib/libnvidia-ml.so.1", bare |-> FALSE],
     [path |-> "/usr/lib/aarch64-linux-gnu/libnvidia-ml.so.1", bare |-> FALSE],
     [path |-> "/usr/local/cuda/lib64/stubs/libnvidia-ml.so", bare |-> FALSE],
     [path |-> "/usr/local/cuda/targets/x86_64-linux/lib/stubs/libnvidia-ml.so", bare |-> FALSE] >>

\* The value of process.env.NVML_LIBRARY_PATH when it is set and not empty.
EnvPathName == "$NVML_LIBRARY_PATH"

\* `if (envPath)`: the variable is set and its value is not the empty string.
\* env.envPath is "unset", "empty", "exists" (it names a file) or "absent" (it
\* names no file).
envPathGiven == env.envPath \notin {"unset", "empty"}

\* existsSync(path) on this machine
existsSync(path) ==
  IF path = EnvPathName THEN env.envPath = "exists" ELSE path \in env.onDisk

\* A loop that tests the bare names with existsSync as it does the absolute
\* paths.
RECURSIVE FindDefaultFrom_testsBareNames(_)
FindDefaultFrom_testsBareNames(i) ==
  IF i > Len(DEFAULT_LIBRARY_PATHS) THEN Null
  ELSE LET p == DEFAULT_LIBRARY_PATHS[i] IN
       IF existsSync(p.path) THEN p.path
       ELSE FindDefaultFrom_testsBareNames(i + 1)

\* The `for (const path of DEFAULT_LIBRARY_PATHS)` loop from position i on.
RECURSIVE FindDefaultFrom(_)
FindDefaultFrom(i) ==
  IF i > Len(DEFAULT_LIBRARY_PATHS) THEN Null
  ELSE LET p == DEFAULT_LIBRARY_PATHS[i] IN
       IF p.bare THEN p.path
       ELSE IF existsSync(p.path) THEN p.path
       ELSE FindDefaultFrom(i + 1)

findLibraryPath ==
  IF envPathGiven /\ existsSync(EnvPathName) THEN EnvPathName
  ELSE FindDefaultFrom(1)

\* existsSync(path) as findLibraryPath calls it, and its console.warn(...)
ProbeEv(path) == Ev("existsSync", path, 0, IF existsSync(path) THEN 0 ELSE 1, 0)
WarnEv == Ev("warn", "console.warn", 0, 0, 0)

\* The files the loop over DEFAULT_LIBRARY_PATHS tests from position i on.
RECURSIVE ProbesFrom(_)
ProbesFrom(i) ==
  IF i > Len(DEFAULT_LIBRARY_PATHS) THEN <<>>
  ELSE LET p == DEFAULT_LIBRARY_PATHS[i] IN
       IF p.bare THEN <<>>
       ELSE IF existsSync(p.path) THEN <<ProbeEv(p.path)>>
       ELSE <<ProbeEv(p.path)>> \o ProbesFrom(i + 1)

\* What findLibraryPath() does besides returning: the files it tests and the
\* warning it prints, in order.
findLibraryPath_effects ==
  IF ~envPathGiven THEN ProbesFrom(1)
  ELSE IF existsSync(EnvPathName) THEN <<ProbeEv(EnvPathName)>>
  ELSE <<ProbeEv(EnvPathName), WarnEv>> \o ProbesFrom(1)

getSearchPaths ==
  LET paths == [i \in 1..Len(DEFAULT_LIBRARY_PATHS) |-> DEFAULT_LIBRARY_PATHS[i].path] IN
  IF envPathGiven THEN <<EnvPathName>> \o paths ELSE paths

-----------------------------------------------------------------------------
(* Library handle manager, bindings/library.ts *)

\* new Error(...) of the library manager and of koffi
NoError == [name |-> "none", code |-> NoCode, message |-> <<>>]
LibraryNotFoundError == [name |-> "Error", code |-> NoCode,
                         message |-> <<"Could not find libnvidia-ml.so">> \o getSearchPaths]
LibraryLoadError(path) == [name |-> "Error", code |-> NoCode,
                           message |-> <<"Failed to load NVML library from", path>>]
SymbolNotFoundError(fn) == [name |-> "Error", code |-> NoCode,
                            message |-> <<"Cannot find function in shared library", fn>>]

\* A manager without the `if (lib) return lib` test: every acquire discovers
\* and loads.
getLibrary_alwaysLoads ==
  IF env.libPresent
  THEN [threw |-> FALSE, error |-> NoError, lib |-> loads + 1, loads |-> loads + 1,
        events |-> <<DiscoverEv(TRUE), LoadEv(TRUE)>>]
  ELSE [threw |-> TRUE, error |-> LibraryLoadError(findLibraryPath), lib |-> lib,
        loads |-> loads, events |-> <<DiscoverEv(TRUE), LoadEv(FALSE)>>]

\* getLibrary(): what it returns or throws, and the state it leaves
getLibrary ==
  IF lib # 0
  THEN [threw |-> FALSE, error |-> NoError, lib |-> lib, loads |-> loads, events |-> <<>>]
  ELSE LET path == findLibraryPath IN
       IF path = Null
       THEN [threw |-> TRUE, error |-> LibraryNotFoundError, lib |-> lib, loads |-> loads,
             events |-> <<DiscoverEv(FALSE)>>]
       ELSE IF env.libPresent
       THEN [threw |-> FALSE, error |-> NoError, lib |-> loads + 1, loads |-> loads + 1,
             events |-> <<DiscoverEv(TRUE), LoadEv(TRUE)>>]
       ELSE [threw |-> TRUE, error |-> LibraryLoadError(path), lib |-> lib, loads |-> loads,
             events |-> <<DiscoverEv(TRUE), LoadEv(FALSE)>>]

-----------------------------------------------------------------------------
(* The native layer *)

\* A device handle the native layer hands out for index i; 0 is a null handle.
NullHandle == 0
HandleOf(index) == index + 1
Handles == 1..(MaxCount + 1)

\* nvml.h: the capacity the wrapper passes to the process enumerations
MAX_PROCESSES == 128

FailCodes == NativeCodes \ {SUCCESS}

\* The encoded CUDA versions the driver may report: major * 1000 + minor * 10.
CudaVersions == {12040}

\* The zero byte of a buffer; Buffer.alloc fills the buffer with it.
NUL == "NUL"

\* What the native function may answer: its status and what it wrote to the
\* output cells.  On a nonzero status the output cells keep their initial value.
\* On a machine with a settled number of devices (env.settled) the count and
\* the lookup by index answer as the driver does for env.devices devices:
\* an index out of range is an invalid argument.
NativeResponses(fn, arg) ==
  CASE fn = "nvmlDeviceGetCount" /\ env.settled ->
         {[ret |-> SUCCESS, out |-> env.devices]}
    [] fn = "nvmlDeviceGetHandleByIndex" /\ env.settled ->
         IF arg < env.devices
         THEN {[ret |-> SUCCESS, out |-> HandleOf(arg)]}
         ELSE {[ret |-> ERROR_INVALID_ARGUMENT, out |-> NullHandle]}
    [] fn = "nvmlDeviceGetCount" ->
         {[ret |-> SUCCESS, out |-> c] : c \in 0..MaxCount}
         \cup {[ret |-> r, out |-> 0] : r \in FailCodes}
    [] fn = "nvmlDeviceGetHandleByIndex" ->
         {[ret |-> SUCCESS, out |-> h] : h \in {HandleOf(arg), NullHandle}}
         \cup {[ret |-> r, out |-> NullHandle] : r \in FailCodes}
    [] fn = "nvmlDeviceGetHandleByUUID" ->
         {[ret |-> SUCCESS, out |-> h] : h \in (1..MaxCount) \cup {NullHandle}}
         \cup {[ret |-> r, out |-> NullHandle] : r \in FailCodes}
    [] fn = "nvmlDeviceGetComputeRunningProcesses" ->
         {[ret |-> SUCCESS, out |-> env.procs[arg].compute]}
         \cup {[ret |-> r, out |-> [count |-> MAX_PROCESSES, infos |-> <<>>]] : r \in FailCodes}
    [] fn = "nvmlDeviceGetGraphicsRunningProcesses" ->
         {[ret |-> SUCCESS, out |-> env.procs[arg].graphics]}
         \cup {[ret |-> r, out |-> [count |-> MAX_PROCESSES, infos |-> <<>>]] : r \in FailCodes}
    [] fn = "nvmlSystemGetCudaDriverVersion_v2" ->
         {[ret |-> SUCCESS, out |-> v] : v \in env.cuda}
         \cup {[ret |-> r, out |-> 0] : r \in FailCodes}
    [] fn \in TextFns ->
         {[ret |-> SUCCESS, out |-> buffer] :
            buffer \in (IF env.buffers = {} THEN {<<fn, NUL, NUL>>} ELSE env.buffers)}
         \cup {[ret |-> r, out |-> <<NUL, NUL, NUL>>] : r \in FailCodes}
    [] OTHER ->
         {[ret |-> r, out |-> fn] : r \in NativeCodes}

\* A decoding that cuts the buffer after its last byte that is not NUL.
RECURSIVE DecodeText_trailingOnly(_)
DecodeText_trailingOnly(buffer) ==
  IF buffer # <<>> /\ buffer[Len(buffer)] = NUL
  THEN DecodeText_trailingOnly(SubSeq(buffer, 1, Len(buffer) - 1))
  ELSE buffer

\* `buffer.toString('utf8').replace(/\0/g, '')`: the buffer without its NULs
DecodeText(buffer) == SelectSeq(buffer, LAMBDA c : c # NUL)

\* What the binding function hands on of what the native function wrote.
Unmarshal(fn, out) == IF fn \in TextFns THEN DecodeText(out) ELSE out

-----------------------------------------------------------------------------
(* Lazily bound native functions, bindings/init.ts, device.ts, system.ts,  *)
(* process.ts: `if (!_f) { _f = getLibrary().func(sig) } return _f`, then  *)
(* the call.                                                               *)

\* A binding function that was not called.
NoCall ==
  [threw |-> FALSE, error |-> NoError, lib |-> lib, loads |-> loads, bound |-> bound,
   events |-> <<>>, ret |-> SUCCESS, out |-> Undefined]

\* A getter without the `if (!_f)` test: every call resolves the symbol.
BindingCall_uncached(fn, arg) ==
  LET g == getLibrary IN
  IF g.threw
  THEN {[threw |-> TRUE, error |-> g.error, lib |-> g.lib, loads |-> g.loads,
         bound |-> bound, events |-> g.events, ret |-> SUCCESS, out |-> Undefined]}
  ELSE IF fn \in env.missing
  THEN {[threw |-> TRUE, error |-> SymbolNotFoundError(fn), lib |-> g.lib,
         loads |-> g.loads, bound |-> bound,
         events |-> g.events \o <<ResolveEv(fn, FALSE)>>,
         ret |-> SUCCESS, out |-> Undefined]}
  ELSE {[threw |-> FALSE, error |-> NoError, lib |-> g.lib, loads |-> g.loads,
         bound |-> [bound EXCEPT ![fn] = g.lib],
         events |-> g.events \o <<ResolveEv(fn, TRUE), InvokeEv(fn, arg, r.ret, r.out)>>,
         ret |-> r.ret, out |-> Unmarshal(fn, r.out)]
          : r \in NativeResponses(fn, arg)}

\* The possible results of calling the binding function for `fn`.
BindingCall(fn, arg) ==
  IF bound[fn] # 0
  THEN {[threw |-> FALSE, error |-> NoError, lib |-> lib, loads |-> loads, bound |-> bound,
         events |-> <<InvokeEv(fn, arg, r.ret, r.out)>>,
         ret |-> r.ret, out |-> Unmarshal(fn, r.out)]
          : r \in NativeResponses(fn, arg)}
  ELSE LET g == getLibrary IN
       IF g.threw
       THEN {[threw |-> TRUE, error |-> g.error, lib |-> g.lib, loads |-> g.loads,
              bound |-> bound, events |-> g.events, ret |-> SUCCESS, out |-> Undefined]}
       ELSE IF fn \in env.missing
       THEN {[threw |-> TRUE, error |-> SymbolNotFoundError(fn), lib |-> g.lib,
              loads |-> g.loads, bound |-> bound,
              events |-> g.events \o <<ResolveEv(fn, FALSE)>>,
              ret |-> SUCCESS, out |-> Undefined]}
       ELSE {[threw |-> FALSE, error |-> NoError, lib |-> g.lib, loads |-> g.loads,
              bound |-> [bound EXCEPT ![fn] = g.lib],
              events |-> g.events \o <<ResolveEv(fn, TRUE), InvokeEv(fn, arg, r.ret, r.out)>>,
              ret |-> r.ret, out |-> Unmarshal(fn, r.out)]
               : r \in NativeResponses(fn, arg)}


-----------------------------------------------------------------------------
(* How a call ends *)

Return(v) == [kind |-> "return", value |-> v, error |-> NoError]
Throw(e) == [kind |-> "throw", value |-> Undefined, error |-> e]
Pending == [kind |-> "pending", value |-> Undefined, error |-> NoError]

-----------------------------------------------------------------------------
(* Device, device.ts: the single-field queries.  Each takes the status and *)
(* the decoded output of its one native call.  The native values are kept  *)
(* symbolic: a value is named after the function that wrote it, and a      *)
(* unit conversion is the value paired with the conversion applied.        *)

Device_getName(ret, out) ==
  IF ~isSuccess(ret) THEN errFromReturn(ret, "Failed to get device name") ELSE ok(out)

Device_getUUID(ret, out) ==
  IF ~isSuccess(ret) THEN errFromReturn(ret, "Failed to get device UUID") ELSE ok(out)

Device_getMemoryInfo(ret, out) ==
  IF ~isSuccess(ret) THEN errFromReturn(ret, "Failed to get memory info") ELSE ok(out)

Device_getUtilizationRates(ret, out) ==
  IF ~isSuccess(ret) THEN errFromReturn(ret, "Failed to get utilization rates") ELSE ok(out)

Device_getTemperature(ret, out) ==
  IF ~isSuccess(ret) THEN errFromReturn(ret, "Failed to get temperature") ELSE ok(out)

Device_getPowerUsage(ret, out) ==
  IF ~isSuccess(ret) THEN errFromReturn(ret, "Failed to get power usage")
  ELSE ok(<<out, "/ 1000">>)

Device_getPowerLimit(ret, out) ==
  IF ~isSuccess(ret) THEN errFromReturn(ret, "Failed to get power limit")
  ELSE ok(<<out, "/ 1000">>)

Device_getFanSpeed(ret, out) ==
  IF ret = ERROR_NOT_SUPPORTED THEN ok(Null)
  ELSE IF ~isSuccess(ret) THEN errFromReturn(ret, "Failed to get fan speed")
  ELSE ok(out)

Device_getPerformanceState(ret, out) ==
  IF ~isSuccess(ret) THEN errFromReturn(ret, "Failed to get performance state") ELSE ok(out)

Device_getPciInfo(ret, out) ==
  IF ~isSuccess(ret) THEN errFromReturn(ret, "Failed to get PCI info") ELSE ok(out)

\* A getPersistenceMode() that treats "not supported" as an absent value.
Device_getPersistenceMode_nullable(ret, out) ==
  IF ret = ERROR_NOT_SUPPORTED THEN ok(Null)
  ELSE IF ~isSuccess(ret) THEN errFromReturn(ret, "Failed to get persistence mode")
  ELSE ok(out)

Device_getPersistenceMode(ret, out) ==
  IF ~isSuccess(ret) THEN errFromReturn(ret, "Failed to get persistence mode") ELSE ok(out)

Device_getDisplayActive(ret, out) ==
  IF ~isSuccess(ret) THEN errFromReturn(ret, "Failed to get display active status") ELSE ok(out)

Device_getComputeMode(ret, out) ==
  IF ~isSuccess(ret) THEN errFromReturn(ret, "Failed to get compute mode") ELSE ok(out)

Device_getMigMode(ret, out) ==
  IF ret = ERROR_NOT_SUPPORTED THEN ok(Null)
  ELSE IF ~isSuccess(ret) THEN errFromReturn(ret, "Failed to get MIG mode")
  ELSE ok(<<out, "=== 1">>)

Device_getEccErrorsCorrected(ret, out) ==
  IF ret = ERROR_NOT_SUPPORTED THEN ok(Null)
  ELSE IF ~isSuccess(ret) THEN errFromReturn(ret, "Failed to get ECC errors")
  ELSE ok(out)

\* The single-field query methods of Device.
FieldMethods ==
  {"getName", "getUUID", "getMemoryInfo", "getUtilizationRates", "getTemperature",
   "getPowerUsage", "getPowerLimit", "getFanSpeed", "getPerformanceState", "getPciInfo",
   "getPersistenceMode", "getDisplayActive", "getComputeMode", "getMigMode",
   "getEccErrorsCorrected"}

\* The binding function each single-field method calls.
NativeOf(m) ==
  CASE m = "getName" -> "nvmlDeviceGetName"
    [] m = "getUUID" -> "nvmlDeviceGetUUID"
    [] m = "getMemoryInfo" -> "nvmlDeviceGetMemoryInfo"
    [] m = "getUtilizationRates" -> "nvmlDeviceGetUtilizationRates"
    [] m = "getTemperature" -> "nvmlDeviceGetTemperature"
    [] m = "getPowerUsage" -> "nvmlDeviceGetPowerUsage"
    [] m = "getPowerLimit" -> "nvmlDeviceGetPowerManagementLimit"
    [] m = "getFanSpeed" -> "nvmlDeviceGetFanSpeed"
    [] m = "getPerformanceState" -> "nvmlDeviceGetPerformanceState"
    [] m = "getPciInfo" -> "nvmlDeviceGetPciInfo"
    [] m = "getPersistenceMode" -> "nvmlDeviceGetPersistenceMode"
    [] m = "getDisplayActive" -> "nvmlDeviceGetDisplayActive"
    [] m = "getComputeMode" -> "nvmlDeviceGetComputeMode"
    [] m = "getMigMode" -> "nvmlDeviceGetMigMode"
    [] m = "getEccErrorsCorrected" -> "nvmlDeviceGetTotalEccErrors"

\* Method m applied to the answer of its native call.
DeviceField(m, ret, out) ==
  CASE m = "getName" -> Device_getName(ret, out)
    [] m = "getUUID" -> Device_getUUID(ret, out)
    [] m = "getMemoryInfo" -> Device_getMemoryInfo(ret, out)
    [] m = "getUtilizationRates" -> Device_getUtilizationRates(ret, out)
    [] m = "getTemperature" -> Device_getTemperature(ret, out)
    [] m = "getPowerUsage" -> Device_getPowerUsage(ret, out)
    [] m = "getPowerLimit" -> Device_getPowerLimit(ret, out)
    [] m = "getFanSpeed" -> Device_getFanSpeed(ret, out)
    [] m = "getPerformanceState" -> Device_getPerformanceState(ret, out)
    [] m = "getPciInfo" -> Device_getPciInfo(ret, out)
    [] m = "getPersistenceMode" -> Device_getPersistenceMode(ret, out)
    [] m = "getDisplayActive" -> Device_getDisplayActive(ret, out)
    [] m = "getComputeMode" -> Device_getComputeMode(ret, out)
    [] m = "getMigMode" -> Device_getMigMode(ret, out)
    [] m = "getEccErrorsCorrected" -> Device_getEccErrorsCorrected(ret, out)

-----------------------------------------------------------------------------
(* Device, device.ts: construction *)

\* A Device object: its native handle and its index field.  initAtGet is
\* history: whether the lifecycle flag was set when it was constructed.
Dev(handle, index) == [handle |-> handle, index |-> index, initAtGet |-> initialized]
NoDev == [handle |-> NullHandle, index |-> -1, initAtGet |-> FALSE]

\* An index argument: a number that is or is not an integer.
IndexArg(isInt, val) == [int |-> isInt, val |-> val]
IndexArgs ==
  {IndexArg(TRUE, i) : i \in -1..MaxCount} \cup {IndexArg(FALSE, 0)}

\* Number.isInteger(index) && index >= 0
ValidIndex(index) == index.int /\ index.val >= 0

\* A UUID argument: a string, as its sequence of characters.
UuidArgs == {<<>>, <<" ">>, <<" ", " ">>, <<"G">>, <<" ", "G">>, <<"G", " ">>}

\* uuid.trim()
RECURSIVE TrimLeft(_)
TrimLeft(u) == IF u # <<>> /\ Head(u) = " " THEN TrimLeft(Tail(u)) ELSE u
RECURSIVE TrimRight(_)
TrimRight(u) ==
  IF u # <<>> /\ u[Len(u)] = " " THEN TrimRight(SubSeq(u, 1, Len(u) - 1)) ELSE u
Trim(u) == TrimRight(TrimLeft(u))

\* uuid.trim().length !== 0
ValidUuid(uuid) == Len(Trim(uuid)) # 0

\* Device.getByIndex(index): the binding calls it can make (none when the
\* argument is rejected), and how it ends given the call b it made.
Device_getByIndex_calls(index) ==
  IF ~ValidIndex(index) THEN {NoCall}
  ELSE BindingCall("nvmlDeviceGetHandleByIndex", index.val)

\* A getByIndex() that consults the lifecycle flag first.
Device_getByIndex_gated(index, b) ==
  IF ~initialized
  THEN Throw(NvmlError(ERROR_UNINITIALIZED, <<"NVML not initialized. Call Nvml.init() first.">>))
  ELSE IF ~ValidIndex(index) THEN Throw(Error("Invalid device index"))
  ELSE IF b.threw THEN Throw(b.error)
  ELSE IF ~isSuccess(b.ret) \/ b.out = NullHandle
  THEN Throw(NvmlErrorFromReturn(b.ret, "Failed to get device at index"))
  ELSE Return(Dev(b.out, index.val))

\* A getByIndex() that reports every failed lookup as not found.
Device_getByIndex_notFound(index, b) ==
  IF ~ValidIndex(index) THEN Throw(Error("Invalid device index"))
  ELSE IF b.threw THEN Throw(b.error)
  ELSE IF ~isSuccess(b.ret) \/ b.out = NullHandle
  THEN Throw(NvmlErrorFromReturn(ERROR_NOT_FOUND, "Failed to get device at index"))
  ELSE Return(Dev(b.out, index.val))

Device_getByIndex(index, b) ==
  IF ~ValidIndex(index) THEN Throw(Error("Invalid device index"))
  ELSE IF b.threw THEN Throw(b.error)
  ELSE IF ~isSuccess(b.ret) \/ b.out = NullHandle
  THEN Throw(NvmlErrorFromReturn(b.ret, "Failed to get device at index"))
  ELSE Return(Dev(b.out, index.val))

\* A getByUUID() whose Device reports index 0.
Device_getByUUID_indexZero(uuid, b) ==
  IF ~ValidUuid(uuid) THEN Throw(Error("Invalid device UUID"))
  ELSE IF b.threw THEN Throw(b.error)
  ELSE IF ~isSuccess(b.ret) \/ b.out = NullHandle
  THEN Throw(NvmlErrorFromReturn(b.ret, "Failed to get device with UUID"))
  ELSE Return(Dev(b.out, 0))

\* Device.getByUUID(uuid)
Device_getByUUID_calls(uuid) ==
  IF ~ValidUuid(uuid) THEN {NoCall}
  ELSE BindingCall("nvmlDeviceGetHandleByUUID", 0)

Device_getByUUID(uuid, b) ==
  IF ~ValidUuid(uuid) THEN Throw(Error("Invalid device UUID"))
  ELSE IF b.threw THEN Throw(b.error)
  ELSE IF ~isSuccess(b.ret) \/ b.out = NullHandle
  THEN Throw(NvmlErrorFromReturn(b.ret, "Failed to get device with UUID"))
  ELSE Return(Dev(b.out, -1))

-----------------------------------------------------------------------------
(* Nvml, nvml.ts: the handlers that make at most one native call *)

\* A gate that lets every call through.
ensureInitialized_open == Return(Undefined)

\* Nvml.ensureInitialized()
ensureInitialized ==
  IF ~initialized
  THEN Throw(NvmlError(ERROR_UNINITIALIZED, <<"NVML not initialized. Call Nvml.init() first.">>))
  ELSE Return(Undefined)

\* What a handler that starts with ensureInitialized() goes on to call.
Gated(calls) == IF ensureInitialized.kind = "throw" THEN {NoCall} ELSE calls

\* An init() that returns at once when the flag is set.
Nvml_init_calls_once ==
  IF initialized THEN {NoCall} ELSE BindingCall("nvmlInit", 0)

\* Nvml.init() calls nvmlInit() whatever the flag says.
Nvml_init_calls == BindingCall("nvmlInit", 0)

\* An init() that sets the flag before it looks at the native status.
Nvml_init_eager(b) ==
  IF b.threw THEN [initialized |-> initialized, outcome |-> Throw(b.error)]
  ELSE IF ~isSuccess(b.ret)
  THEN [initialized |-> TRUE,
        outcome |-> Throw(NvmlErrorFromReturn(b.ret, "Failed to initialize NVML"))]
  ELSE [initialized |-> TRUE, outcome |-> Return(Undefined)]

\* Nvml.init(): the flag it leaves and how it ends, given its binding call b
Nvml_init(b) ==
  IF b.threw THEN [initialized |-> initialized, outcome |-> Throw(b.error)]
  ELSE IF ~isSuccess(b.ret)
  THEN [initialized |-> initialized,
        outcome |-> Throw(NvmlErrorFromReturn(b.ret, "Failed to initialize NVML"))]
  ELSE [initialized |-> TRUE, outcome |-> Return(Undefined)]

\* A shutdown() that forgets to clear the flag.
Nvml_shutdown_keepsFlag(b) ==
  IF b.threw THEN [initialized |-> initialized, outcome |-> Throw(b.error)]
  ELSE IF ~isSuccess(b.ret)
  THEN [initialized |-> initialized,
        outcome |-> Throw(NvmlErrorFromReturn(b.ret, "Failed to shutdown NVML"))]
  ELSE [initialized |-> initialized, outcome |-> Return(Undefined)]

\* Nvml.shutdown()
Nvml_shutdown(b) ==
  IF b.threw THEN [initialized |-> initialized, outcome |-> Throw(b.error)]
  ELSE IF ~isSuccess(b.ret)
  THEN [initialized |-> initialized,
        outcome |-> Throw(NvmlErrorFromReturn(b.ret, "Failed to shutdown NVML"))]
  ELSE [initialized |-> FALSE, outcome |-> Return(Undefined)]

\* Nvml.isInitialized()
Nvml_isInitialized == Return(initialized)

\* Nvml.getDeviceCount()
Nvml_getDeviceCount(b) ==
  IF ensureInitialized.kind = "throw" THEN ensureInitialized
  ELSE IF b.threw THEN Throw(b.error)
  ELSE IF ~isSuccess(b.ret)
  THEN Throw(NvmlErrorFromReturn(b.ret, "Failed to get device count"))
  ELSE Return(b.out)

\* A getDevice() that looks at its argument before the lifecycle flag.
Nvml_getDevice_validatesFirst(index, b) ==
  IF ~ValidIndex(index) THEN Throw(Error("Invalid device index"))
  ELSE IF ensureInitialized.kind = "throw" THEN ensureInitialized
  ELSE Device_getByIndex(index, b)

\* Nvml.getDevice(index)
Nvml_getDevice(index, b) ==
  IF ensureInitialized.kind = "throw" THEN ensureInitialized
  ELSE Device_getByIndex(index, b)

\* Nvml.getDeviceByUUID(uuid)
Nvml_getDeviceByUUID(uuid, b) ==
  IF ensureInitialized.kind = "throw" THEN ensureInitialized
  ELSE Device_getByUUID(uuid, b)

\* `${n}` for a non-negative integer n: its decimal numeral, as characters
DigitChar(d) == <<"0", "1", "2", "3", "4", "5", "6", "7", "8", "9">>[d + 1]
RECURSIVE Digits(_)
Digits(n) == IF n < 10 THEN <<DigitChar(n)>> ELSE Digits(n \div 10) \o <<DigitChar(n % 10)>>

\* A conversion that forgets to divide the minor part by ten.
cudaVersionToString_minorUnscaled(version) ==
  Digits(version \div 1000) \o <<".">> \o Digits(version % 1000)

\* cudaVersionToString, bindings/system.ts: `${major}.${minor}`
cudaVersionToString(version) ==
  LET major == version \div 1000
      minor == (version % 1000) \div 10 IN
  Digits(major) \o <<".">> \o Digits(minor)

\* A getDriverVersion() that throws the native failure.
Nvml_getDriverVersion_throws(b) ==
  IF ~initialized
  THEN Throw(NvmlError(ERROR_UNINITIALIZED, <<"NVML not initialized. Call Nvml.init() first.">>))
  ELSE IF b.threw THEN Throw(b.error)
  ELSE IF ~isSuccess(b.ret)
  THEN Throw(NvmlErrorFromReturn(b.ret, "Failed to get driver version"))
  ELSE Return(ok(b.out))

\* Nvml.getDriverVersion()
Nvml_getDriverVersion(b) ==
  IF ensureInitialized.kind = "throw" THEN ensureInitialized
  ELSE IF b.threw THEN Throw(b.error)
  ELSE IF ~isSuccess(b.ret)
  THEN Return(errFromReturn(b.ret, "Failed to get driver version"))
  ELSE Return(ok(b.out))

\* Nvml.getNvmlVersion()
Nvml_getNvmlVersion(b) ==
  IF ensureInitialized.kind = "throw" THEN ensureInitialized
  ELSE IF b.threw THEN Throw(b.error)
  ELSE IF ~isSuccess(b.ret)
  THEN Return(errFromReturn(b.ret, "Failed to get NVML version"))
  ELSE Return(ok(b.out))

\* Nvml.getCudaVersion()
Nvml_getCudaVersion(b) ==
  IF ensureInitialized.kind = "throw" THEN ensureInitialized
  ELSE IF b.threw THEN Throw(b.error)
  ELSE IF ~isSuccess(b.ret)
  THEN Return(errFromReturn(b.ret, "Failed to get CUDA version"))
  ELSE Return(ok(cudaVersionToString(b.out)))

-----------------------------------------------------------------------------
(* Values the aggregating handlers build *)

\* The object literal of Device.getBasicInfo; vals = <<name, memory>>
GpuBasicInfo(dev, vals) ==
  [index |-> dev.index, name |-> vals[1],
   memoryTotalMiB |-> <<"MiB", "total", vals[2]>>,
   memoryTotalGiB |-> <<"GiB", "total", vals[2]>>]

\* A getStatus that asks for the fan speed before the ECC counter.
StatusOrder_fanBeforeEcc ==
  <<"getName", "getPersistenceMode", "getPciInfo", "getDisplayActive",
    "getFanSpeed", "getEccErrorsCorrected", "getTemperature", "getPerformanceState",
    "getPowerUsage", "getPowerLimit", "getMemoryInfo", "getUtilizationRates",
    "getComputeMode", "getMigMode">>

\* The order in which Device.getStatus calls the single-field methods.
StatusOrder ==
  <<"getName", "getPersistenceMode", "getPciInfo", "getDisplayActive",
    "getEccErrorsCorrected", "getFanSpeed", "getTemperature", "getPerformanceState",
    "getPowerUsage", "getPowerLimit", "getMemoryInfo", "getUtilizationRates",
    "getComputeMode", "getMigMode">>

\* The order in which Device.getBasicInfo calls them.
BasicInfoOrder == <<"getName", "getMemoryInfo">>

\* The object literal of Device.getStatus; vals follows StatusOrder
GpuStatus(dev, vals) ==
  [index |-> dev.index, name |-> vals[1], persistenceMode |-> vals[2],
   pciBusId |-> <<"busId", vals[3]>>, displayActive |-> vals[4],
   eccErrorsCorrected |-> vals[5], fanSpeed |-> vals[6], temperature |-> vals[7],
   pstate |-> vals[8], powerDraw |-> vals[9], powerLimit |-> vals[10],
   memoryUsedMiB |-> <<"MiB", "used", vals[11]>>,
   memoryTotalMiB |-> <<"MiB", "total", vals[11]>>,
   utilizationGpu |-> <<"gpu", vals[12]>>, utilizationMemory |-> <<"memory", vals[12]>>,
   computeMode |-> vals[13], migMode |-> vals[14]]

\* The object literal of Nvml.getDriverInfo
DriverInfo(driver, nvml, cuda) ==
  [driverVersion |-> driver, nvmlVersion |-> nvml, cudaVersion |-> cudaVersionToString(cuda)]

\* The object literal of Nvml.getSystemSnapshot
SystemSnapshot(driver, gpus, processes) ==
  [timestamp |-> "Date", driver |-> driver, gpus |-> gpus, processes |-> processes]

\* An entry of the `infos` array the wrapper allocates: all zero.
EmptyInfo == [pid |-> 0, usedGpuMemory |-> 0]

\* The extraction loop of nvmlDeviceGet{Compute,Graphics}RunningProcesses,
\* bindings/process.ts: what its iterations i..j-1 (0-based array positions)
\* push, the one iteration `if (info && info.pid > 0) processes.push(...)` or
\* the first half of the iterations followed by the second half.
RECURSIVE ExtractFrom(_, _, _)
ExtractFrom(out, i, j) ==
  IF ~(i < j) THEN <<>>
  ELSE IF j = i + 1
  THEN LET info == IF i + 1 <= Len(out.infos) THEN out.infos[i + 1] ELSE EmptyInfo IN
       IF info.pid > 0 THEN <<info>> ELSE <<>>
  ELSE LET mid == (i + j) \div 2 IN
       ExtractFrom(out, i, mid) \o ExtractFrom(out, mid, j)

\* An extraction that stops at the first entry whose pid is 0.
RECURSIVE DecodeProcesses_stopsAtEmpty(_)
DecodeProcesses_stopsAtEmpty(out) ==
  IF out.count = 0 \/ out.infos = <<>> \/ Head(out.infos).pid = 0 THEN <<>>
  ELSE <<Head(out.infos)>>
       \o DecodeProcesses_stopsAtEmpty([count |-> out.count - 1, infos |-> Tail(out.infos)])

\* `for (let i = 0; i < count && i < MAX_PROCESSES; i++)`
DecodeProcesses(out) ==
  ExtractFrom(out, 0, IF out.count < MAX_PROCESSES THEN out.count ELSE MAX_PROCESSES)

\* A loop without the seenPids test: every raw entry is converted.
SkipSeen_keepsDuplicates(raw, seen) == raw

\* `if (seenPids.has(rawProc.pid)) continue`: the entries of raw from the first
\* one whose pid was not seen.
RECURSIVE SkipSeen(_, _)
SkipSeen(raw, seen) ==
  IF raw # <<>> /\ Head(raw).pid \in seen THEN SkipSeen(Tail(raw), seen) ELSE raw

\* A conversion that takes the name buffer whatever the status of the query.
GpuProcess_bufferAsName(dev, rawProc, ret, name) ==
  [gpuIndex |-> dev.index, pid |-> rawProc.pid,
   processName |-> <<name>>,
   usedMemoryMiB |-> rawProc.usedGpuMemory \div (1024 * 1024)]

\* The GpuProcess pushed for rawProc, given the answer of the name query.
GpuProcess(dev, rawProc, ret, name) ==
  [gpuIndex |-> dev.index, pid |-> rawProc.pid,
   processName |-> IF isSuccess(ret) THEN <<name>> ELSE <<"pid:", rawProc.pid>>,
   usedMemoryMiB |-> rawProc.usedGpuMemory \div (1024 * 1024)]

-----------------------------------------------------------------------------
(* Frames of the handlers that make several native calls *)

NoRet == Undefined
NoOutcome == [kind |-> "none", value |-> Undefined, error |-> NoError]

Frame(fn, dev) ==
  [fn |-> fn, pc |-> "start", dev |-> dev, i |-> 0, count |-> 0, acc |-> <<>>, aux |-> <<>>]

Top == stack[Len(stack)]

\* The function whose resolution threw most recently, after these events.
MissAfter(events) ==
  LET failed == {k \in 1..Len(events) : events[k].ev = "resolve" /\ events[k].ret # 0} IN
  IF failed = {} THEN lastMiss ELSE events[CHOOSE k \in failed : TRUE].fn

\* The effect of binding call b on the library manager and the caches.
Native(b) ==
  /\ lib' = b.lib
  /\ loads' = b.loads
  /\ bound' = b.bound
  /\ lastMiss' = MissAfter(b.events)
  /\ trace' = trace \o b.events

\* The running handler goes on as frame f.
Goto(f) ==
  /\ stack' = [stack EXCEPT ![Len(stack)] = f]
  /\ UNCHANGED <<retval, outcome>>

\* The running handler returns v to its caller.
RetTo(v) ==
  IF Len(stack) = 1
  THEN /\ stack' = <<>>
       /\ outcome' = Return(v)
       /\ retval' = NoRet
  ELSE /\ stack' = SubSeq(stack, 1, Len(stack) - 1)
       /\ retval' = v
       /\ UNCHANGED outcome

\* The running handler throws e; no handler catches, so the call ends.
ThrowOut(e) ==
  /\ stack' = <<>>
  /\ outcome' = Throw(e)
  /\ retval' = NoRet

\* The running handler, continuing as f, calls handler g.
CallSub(f, g) ==
  /\ stack' = Append([stack EXCEPT ![Len(stack)] = f], g)
  /\ UNCHANGED <<retval, outcome>>

\* No call is in progress and the client has taken the result of the last one.
Idle == stack = <<>> /\ outcome.kind = "none"

\* A top-level call of a one-call handler: it made binding call b and ended as o.
Atomic(op, arg, b, o) ==
  /\ Idle
  /\ call' = [op |-> op, initAtCall |-> initialized, arg |-> arg]
  /\ lib' = b.lib
  /\ loads' = b.loads
  /\ bound' = b.bound
  /\ lastMiss' = MissAfter(b.events)
  /\ trace' = b.events
  /\ outcome' = o
  /\ UNCHANGED <<stack, retval, env>>

\* A top-level call of a several-call handler begins.
Begin(op, dev) ==
  /\ Idle
  /\ call' = [op |-> op, initAtCall |-> initialized, arg |-> Undefined]
  /\ trace' = <<>>
  /\ outcome' = Pending
  /\ stack' = <<Frame(op, dev)>>
  /\ retval' = NoRet
  /\ UNCHANGED <<initialized, lib, loads, bound, lastMiss, env, held, lastLife>>

-----------------------------------------------------------------------------
(* Top-level calls of the handlers that make at most one native call *)

NvmlInit ==
  \E b \in Nvml_init_calls :
    LET r == Nvml_init(b) IN
    /\ Atomic("init", Undefined, b, r.outcome)
    /\ initialized' = r.initialized
    /\ lastLife' = IF r.outcome.kind = "return" THEN "init" ELSE lastLife
    /\ UNCHANGED held

NvmlShutdown ==
  \E b \in BindingCall("nvmlShutdown", 0) :
    LET r == Nvml_shutdown(b) IN
    /\ Atomic("shutdown", Undefined, b, r.outcome)
    /\ initialized' = r.initialized
    /\ lastLife' = IF r.outcome.kind = "return" THEN "shutdown" ELSE lastLife
    /\ UNCHANGED held

NvmlIsInitialized ==
  /\ Atomic("isInitialized", Undefined, NoCall, Nvml_isInitialized)
  /\ UNCHANGED <<initialized, lastLife, held>>

NvmlGetDeviceCount ==
  \E b \in Gated(BindingCall("nvmlDeviceGetCount", 0)) :
    /\ Atomic("getDeviceCount", Undefined, b, Nvml_getDeviceCount(b))
    /\ UNCHANGED <<initialized, lastLife, held>>

NvmlGetDevice ==
  \E index \in IndexArgs :
    \E b \in Gated(Device_getByIndex_calls(index)) :
      /\ Atomic("getDevice", index, b, Nvml_getDevice(index, b))
      /\ UNCHANGED <<initialized, lastLife, held>>

NvmlGetDeviceByUUID ==
  \E uuid \in UuidArgs :
    \E b \in Gated(Device_getByUUID_calls(uuid)) :
      /\ Atomic("getDeviceByUUID", uuid, b, Nvml_getDeviceByUUID(uuid, b))
      /\ UNCHANGED <<initialized, lastLife, held>>

DeviceGetByIndex ==
  \E index \in IndexArgs :
    \E b \in Device_getByIndex_calls(index) :
      /\ Atomic("getByIndex", index, b, Device_getByIndex(index, b))
      /\ UNCHANGED <<initialized, lastLife, held>>

DeviceGetByUUID ==
  \E uuid \in UuidArgs :
    \E b \in Device_getByUUID_calls(uuid) :
      /\ Atomic("getByUUID", uuid, b, Device_getByUUID(uuid, b))
      /\ UNCHANGED <<initialized, lastLife, held>>

NvmlGetDriverVersion ==
  \E b \in Gated(BindingCall("nvmlSystemGetDriverVersion", 0)) :
    /\ Atomic("getDriverVersion", Undefined, b, Nvml_getDriverVersion(b))
    /\ UNCHANGED <<initialized, lastLife, held>>

NvmlGetNvmlVersion ==
  \E b \in Gated(BindingCall("nvmlSystemGetNvmlVersion", 0)) :
    /\ Atomic("getNvmlVersion", Undefined, b, Nvml_getNvmlVersion(b))
    /\ UNCHANGED <<initialized, lastLife, held>>

NvmlGetCudaVersion ==
  \E b \in Gated(BindingCall("nvmlSystemGetCudaDriverVersion_v2", 0)) :
    /\ Atomic("getCudaVersion", Undefined, b, Nvml_getCudaVersion(b))
    /\ UNCHANGED <<initialized, lastLife, held>>

\* device.getName(), device.getFanSpeed(), ...: method m of dev, given its binding call
Device_method(m, b) ==
  IF b.threw THEN Throw(b.error) ELSE Return(DeviceField(m, b.ret, b.out))

\* A single-field query on the Device the client holds.
DeviceQuery ==
  /\ held # NoDev
  /\ \E m \in FieldMethods :
       \E b \in BindingCall(NativeOf(m), held.handle) :
         /\ Atomic(m, Undefined, b, Device_method(m, b))
         /\ UNCHANGED <<initialized, lastLife, held>>

-----------------------------------------------------------------------------
(* Device.getBasicInfo, Device.getStatus, Device.getProcesses *)

DeviceGetBasicInfo == held # NoDev /\ Begin("getBasicInfo", held)
DeviceGetStatus == held # NoDev /\ Begin("getStatus", held)
DeviceGetProcesses == held # NoDev /\ Begin("getProcesses", held)

\* One more single-field query of getBasicInfo.
GetBasicInfoStep ==
  /\ stack # <<>> /\ Top.fn = "getBasicInfo"
  /\ LET f == Top
         m == BasicInfoOrder[f.i + 1] IN
     \E b \in BindingCall(NativeOf(m), f.dev.handle) :
       LET r == Device_method(m, b) IN
       /\ Native(b)
       /\ IF r.kind = "throw" THEN ThrowOut(r.error)
          ELSE IF ~r.value.ok THEN RetTo(r.value)
          ELSE IF f.i + 1 = Len(BasicInfoOrder)
          THEN RetTo(ok(GpuBasicInfo(f.dev, Append(f.acc, r.value.value))))
          ELSE Goto([f EXCEPT !.i = f.i + 1, !.acc = Append(f.acc, r.value.value)])
  /\ UNCHANGED <<initialized, env, held, call, lastLife>>

\* One more single-field query of getStatus.
GetStatusStep ==
  /\ stack # <<>> /\ Top.fn = "getStatus"
  /\ LET f == Top
         m == StatusOrder[f.i + 1] IN
     \E b \in BindingCall(NativeOf(m), f.dev.handle) :
       LET r == Device_method(m, b) IN
       /\ Native(b)
       /\ IF r.kind = "throw" THEN ThrowOut(r.error)
          ELSE IF ~r.value.ok THEN RetTo(r.value)
          ELSE IF f.i + 1 = Len(StatusOrder)
          THEN RetTo(ok(GpuStatus(f.dev, Append(f.acc, r.value.value))))
          ELSE Goto([f EXCEPT !.i = f.i + 1, !.acc = Append(f.acc, r.value.value)])
  /\ UNCHANGED <<initialized, env, held, call, lastLife>>

\* getProcesses: the compute enumeration, then the graphics enumeration, then
\* one name query per process not seen before.
GetProcessesStep ==
  /\ stack # <<>> /\ Top.fn = "getProcesses"
  /\ LET f == Top IN
     \/ /\ f.pc = "start"
        /\ \E b \in BindingCall("nvmlDeviceGetComputeRunningProcesses", f.dev.handle) :
             /\ Native(b)
             /\ IF b.threw THEN ThrowOut(b.error)
                ELSE IF ~isSuccess(b.ret)
                THEN RetTo(errFromReturn(b.ret, "Failed to get compute processes"))
                ELSE Goto([f EXCEPT !.pc = "graphics", !.aux = DecodeProcesses(b.out)])
     \/ /\ f.pc = "graphics"
        /\ \E b \in BindingCall("nvmlDeviceGetGraphicsRunningProcesses", f.dev.handle) :
             /\ Native(b)
             /\ IF b.threw THEN ThrowOut(b.error)
                ELSE IF ~isSuccess(b.ret)
                THEN RetTo(errFromReturn(b.ret, "Failed to get graphics processes"))
                ELSE LET allRawProcesses == f.aux \o DecodeProcesses(b.out) IN
                     IF allRawProcesses = <<>> THEN RetTo(ok(<<>>))
                     ELSE Goto([f EXCEPT !.pc = "name", !.aux = allRawProcesses])
     \/ /\ f.pc = "name"
        /\ LET rawProc == Head(f.aux) IN
           \E b \in BindingCall("nvmlSystemGetProcessName", rawProc.pid) :
             /\ Native(b)
             /\ IF b.threw THEN ThrowOut(b.error)
                ELSE LET processes == Append(f.acc, GpuProcess(f.dev, rawProc, b.ret, b.out))
                         seenPids == {processes[k].pid : k \in 1..Len(processes)}
                         rest == SkipSeen(Tail(f.aux), seenPids) IN
                     IF rest = <<>> THEN RetTo(ok(processes))
                     ELSE Goto([f EXCEPT !.acc = processes, !.aux = rest])
  /\ UNCHANGED <<initialized, env, held, call, lastLife>>

-----------------------------------------------------------------------------
(* Nvml.getDriverInfo, getAllDevices, getAllGpuStatus, getSystemSnapshot *)

NvmlGetDriverInfo == Begin("getDriverInfo", NoDev)
NvmlGetAllDevices == Begin("getAllDevices", NoDev)
\* The two large aggregates neither read nor write the client's Device; they
\* are explored from the client states that hold none.
NvmlGetAllGpuStatus == held = NoDev /\ Begin("getAllGpuStatus", NoDev)
NvmlGetSystemSnapshot == held = NoDev /\ Begin("getSystemSnapshot", NoDev)

GetDriverInfoStep ==
  /\ stack # <<>> /\ Top.fn = "getDriverInfo"
  /\ LET f == Top IN
     \/ /\ f.pc = "start"
        /\ \E b \in Gated(BindingCall("nvmlSystemGetDriverVersion", 0)) :
             /\ Native(b)
             /\ IF ensureInitialized.kind = "throw" THEN ThrowOut(ensureInitialized.error)
                ELSE IF b.threw THEN ThrowOut(b.error)
                ELSE IF ~isSuccess(b.ret)
                THEN RetTo(errFromReturn(b.ret, "Failed to get driver version"))
                ELSE Goto([f EXCEPT !.pc = "nvml", !.acc = <<b.out>>])
     \/ /\ f.pc = "nvml"
        /\ \E b \in BindingCall("nvmlSystemGetNvmlVersion", 0) :
             /\ Native(b)
             /\ IF b.threw THEN ThrowOut(b.error)
                ELSE IF ~isSuccess(b.ret)
                THEN RetTo(errFromReturn(b.ret, "Failed to get NVML version"))
                ELSE Goto([f EXCEPT !.pc = "cuda", !.acc = Append(f.acc, b.out)])
     \/ /\ f.pc = "cuda"
        /\ \E b \in BindingCall("nvmlSystemGetCudaDriverVersion_v2", 0) :
             /\ Native(b)
             /\ IF b.threw THEN ThrowOut(b.error)
                ELSE IF ~isSuccess(b.ret)
                THEN RetTo(errFromReturn(b.ret, "Failed to get CUDA version"))
                ELSE RetTo(ok(DriverInfo(f.acc[1], f.acc[2], b.out)))
  /\ UNCHANGED <<initialized, env, held, call, lastLife>>

GetAllDevicesStep ==
  /\ stack # <<>> /\ Top.fn = "getAllDevices"
  /\ LET f == Top IN
     \/ /\ f.pc = "start"
        /\ \E b \in Gated(BindingCall("nvmlDeviceGetCount", 0)) :
             LET c == Nvml_getDeviceCount(b) IN
             /\ Native(b)
             /\ IF c.kind = "throw" THEN ThrowOut(c.error)
                ELSE IF ~(0 < c.value) THEN RetTo(<<>>)
                ELSE Goto([f EXCEPT !.pc = "device", !.count = c.value])
     \/ /\ f.pc = "device"
        /\ \E b \in Device_getByIndex_calls(IndexArg(TRUE, f.i)) :
             LET d == Device_getByIndex(IndexArg(TRUE, f.i), b) IN
             /\ Native(b)
             /\ IF d.kind = "throw" THEN ThrowOut(d.error)
                ELSE IF ~(f.i + 1 < f.count) THEN RetTo(Append(f.acc, d.value))
                ELSE Goto([f EXCEPT !.i = f.i + 1, !.acc = Append(f.acc, d.value)])
  /\ UNCHANGED <<initialized, env, held, call, lastLife>>

\* A getAllGpuStatus that skips a device whose status failed.
Nvml_getAllGpuStatus_loop_bestEffort(f, statusResult) ==
  IF ~(f.i + 1 < f.count)
  THEN [returns |-> TRUE,
        value |-> ok(IF statusResult.ok THEN Append(f.acc, statusResult.value) ELSE f.acc),
        frame |-> f]
  ELSE [returns |-> FALSE, value |-> NoRet,
        frame |-> [f EXCEPT !.pc = "device", !.i = f.i + 1,
                            !.acc = IF statusResult.ok
                                    THEN Append(f.acc, statusResult.value) ELSE f.acc]]

\* The rest of the loop body of getAllGpuStatus once device.getStatus() gave
\* statusResult: return, or go on with the next index.
Nvml_getAllGpuStatus_loop(f, statusResult) ==
  IF ~statusResult.ok THEN [returns |-> TRUE, value |-> statusResult, frame |-> f]
  ELSE IF ~(f.i + 1 < f.count)
  THEN [returns |-> TRUE, value |-> ok(Append(f.acc, statusResult.value)), frame |-> f]
  ELSE [returns |-> FALSE, value |-> NoRet,
        frame |-> [f EXCEPT !.pc = "device", !.i = f.i + 1,
                            !.acc = Append(f.acc, statusResult.value)]]

GetAllGpuStatusStep ==
  /\ stack # <<>> /\ Top.fn = "getAllGpuStatus"
  /\ LET f == Top IN
     \/ /\ f.pc = "start"
        /\ \E b \in Gated(BindingCall("nvmlDeviceGetCount", 0)) :
             /\ Native(b)
             /\ IF ensureInitialized.kind = "throw" THEN ThrowOut(ensureInitialized.error)
                ELSE IF b.threw THEN ThrowOut(b.error)
                ELSE IF ~isSuccess(b.ret)
                THEN RetTo(errFromReturn(b.ret, "Failed to get device count"))
                ELSE IF ~(0 < b.out) THEN RetTo(ok(<<>>))
                ELSE Goto([f EXCEPT !.pc = "device", !.count = b.out])
     \/ /\ f.pc = "device"
        /\ \E b \in Device_getByIndex_calls(IndexArg(TRUE, f.i)) :
             LET d == Device_getByIndex(IndexArg(TRUE, f.i), b) IN
             /\ Native(b)
             /\ IF d.kind = "throw" THEN ThrowOut(d.error)
                ELSE CallSub([f EXCEPT !.pc = "status"], Frame("getStatus", d.value))
     \/ /\ f.pc = "status"
        /\ UNCHANGED <<lib, loads, bound, lastMiss, trace>>
        /\ LET t == Nvml_getAllGpuStatus_loop(f, retval) IN
           IF t.returns THEN RetTo(t.value) ELSE Goto(t.frame)
  /\ UNCHANGED <<initialized, env, held, call, lastLife>>

\* A collection that leaves out a process already collected from an earlier
\* device.
Nvml_getSystemSnapshot_push_oncePerPid(allProcesses, value) ==
  allProcesses
    \o SelectSeq(value, LAMBDA p :
                   \A k \in 1..Len(allProcesses) : allProcesses[k].pid # p.pid)

\* `allProcesses.push(...processResult.value)` of getSystemSnapshot
Nvml_getSystemSnapshot_push(allProcesses, value) == allProcesses \o value

\* A getSystemSnapshot that stamps the result without reading the clock.
Nvml_getSystemSnapshot_result_noClock(driver, gpus, processes) ==
  [events |-> <<>>, value |-> ok(SystemSnapshot(driver, gpus, processes))]

\* The final `return ok({ timestamp: new Date(), ... })` of getSystemSnapshot:
\* the clock reads it makes and the value it returns.
Nvml_getSystemSnapshot_result(driver, gpus, processes) ==
  [events |-> <<ClockEv>>, value |-> ok(SystemSnapshot(driver, gpus, processes))]

GetSystemSnapshotStep ==
  /\ stack # <<>> /\ Top.fn = "getSystemSnapshot"
  /\ LET f == Top IN
     \/ /\ f.pc = "start"
        /\ UNCHANGED <<lib, loads, bound, lastMiss, trace>>
        /\ IF ensureInitialized.kind = "throw" THEN ThrowOut(ensureInitialized.error)
           ELSE CallSub([f EXCEPT !.pc = "driver"], Frame("getDriverInfo", NoDev))
     \/ /\ f.pc = "driver"
        /\ UNCHANGED <<lib, loads, bound, lastMiss, trace>>
        /\ LET driverInfoResult == retval IN
           IF ~driverInfoResult.ok THEN RetTo(driverInfoResult)
           ELSE CallSub([f EXCEPT !.pc = "gpus", !.aux = <<driverInfoResult.value>>],
                        Frame("getAllGpuStatus", NoDev))
     \/ /\ f.pc = "gpus"
        /\ LET gpuStatusResult == retval IN
           IF ~gpuStatusResult.ok
           THEN UNCHANGED <<lib, loads, bound, lastMiss, trace>> /\ RetTo(gpuStatusResult)
           ELSE \E b \in BindingCall("nvmlDeviceGetCount", 0) :
                  /\ lib' = b.lib /\ loads' = b.loads /\ bound' = b.bound
                  /\ lastMiss' = MissAfter(b.events)
                  /\ IF b.threw THEN trace' = trace \o b.events /\ ThrowOut(b.error)
                     ELSE IF ~isSuccess(b.ret)
                     THEN /\ trace' = trace \o b.events
                          /\ RetTo(errFromReturn(b.ret, "Failed to get device count for process query"))
                     ELSE IF ~(0 < b.out)
                     THEN LET r == Nvml_getSystemSnapshot_result(f.aux[1], gpuStatusResult.value, <<>>) IN
                          /\ trace' = trace \o b.events \o r.events
                          /\ RetTo(r.value)
                     ELSE /\ trace' = trace \o b.events
                          /\ Goto([f EXCEPT !.pc = "device", !.count = b.out,
                                            !.aux = Append(f.aux, gpuStatusResult.value)])
     \/ /\ f.pc = "device"
        /\ \E b \in Device_getByIndex_calls(IndexArg(TRUE, f.i)) :
             LET d == Device_getByIndex(IndexArg(TRUE, f.i), b) IN
             /\ Native(b)
             /\ IF d.kind = "throw" THEN ThrowOut(d.error)
                ELSE CallSub([f EXCEPT !.pc = "processes"], Frame("getProcesses", d.value))
     \/ /\ f.pc = "processes"
        /\ UNCHANGED <<lib, loads, bound, lastMiss>>
        /\ LET processResult == retval IN
           IF ~processResult.ok THEN UNCHANGED trace /\ RetTo(processResult)
           ELSE IF ~(f.i + 1 < f.count)
           THEN LET r == Nvml_getSystemSnapshot_result(
                           f.aux[1], f.aux[2],
                           Nvml_getSystemSnapshot_push(f.acc, processResult.value)) IN
                /\ trace' = trace \o r.events
                /\ RetTo(r.value)
           ELSE /\ UNCHANGED trace
                /\ Goto([f EXCEPT !.pc = "device", !.i = f.i + 1,
                                  !.acc = Nvml_getSystemSnapshot_push(f.acc, processResult.value)])
  /\ UNCHANGED <<initialized, env, held, call, lastLife>>

-----------------------------------------------------------------------------
(* The machine and the initial states *)

\* The process tables of the devices, as the native enumerations write them:
\* one process per device, listed as a compute and as a graphics process.
ProcTable ==
  [h \in Handles |->
     [compute |-> [count |-> 1,
                   infos |-> <<[pid |-> 6 + h, usedGpuMemory |-> 3 * (1024 * 1024) + 5]>>],
      graphics |-> [count |-> 2,
                    infos |-> <<[pid |-> 6 + h, usedGpuMemory |-> 1024 * 1024],
                                [pid |-> 0, usedGpuMemory |-> 0]>>]]]

Machine(libPresent, missing) ==
  [libPresent |-> libPresent, missing |-> missing, envPath |-> "unset", onDisk |-> {},
   procs |-> ProcTable, settled |-> FALSE, devices |-> 0, cuda |-> CudaVersions,
   buffers |-> {}]

\* No loadable library; a library that exports the lifecycle functions only;
\* a complete library.
NoLibrary == Machine(FALSE, {})
StubLibrary == Machine(TRUE, Fns \ LifecycleFns)
FullLibrary == Machine(TRUE, {})

\* The process has just started: nothing loaded, nothing bound.
Cold ==
  /\ initialized = FALSE
  /\ lib = 0
  /\ loads = 0
  /\ bound = [fn \in Fns |-> 0]
  /\ lastMiss = "none"
  /\ lastLife = "none"

\* A process that ran init() and has called every binding function once.
Warm ==
  /\ initialized = TRUE
  /\ lib = 1
  /\ loads = 1
  /\ bound = [fn \in Fns |-> 1]
  /\ lastMiss = "none"
  /\ lastLife = "init"

NoTopCall == [op |-> "none", initAtCall |-> FALSE, arg |-> Undefined]

\* The operations that hand a Device to the client.
LookupOps == {"getDevice", "getDeviceByUUID", "getByIndex", "getByUUID"}

\* The call has returned or thrown: the client goes on, keeping the Device a
\* lookup gave it (`const device = Device.getByIndex(0)`).
ClientContinues ==
  /\ stack = <<>>
  /\ outcome.kind \in {"return", "throw"}
  /\ held' = IF call.op \in LookupOps /\ outcome.kind = "return" THEN outcome.value ELSE held
  /\ call' = NoTopCall
  /\ trace' = <<>>
  /\ outcome' = NoOutcome
  /\ UNCHANGED <<initialized, lib, loads, bound, lastMiss, env, stack, retval, lastLife>>

\* The client lets go of its Device.
ClientDrops ==
  /\ Idle
  /\ held # NoDev
  /\ held' = NoDev
  /\ UNCHANGED <<initialized, lib, loads, bound, lastMiss, env, call, stack, retval, trace, outcome,
                 lastLife>>

Init ==
  /\ \/ env \in {NoLibrary, StubLibrary} /\ Cold
     \/ env = FullLibrary /\ Warm
  /\ held = NoDev
  /\ call = NoTopCall
  /\ stack = <<>>
  /\ retval = NoRet
  /\ trace = <<>>
  /\ outcome = NoOutcome

Next ==
  \/ NvmlInit
  \/ NvmlShutdown
  \/ NvmlIsInitialized
  \/ NvmlGetDeviceCount
  \/ NvmlGetDevice
  \/ NvmlGetDeviceByUUID
  \/ NvmlGetDriverVersion
  \/ NvmlGetNvmlVersion
  \/ NvmlGetCudaVersion
  \/ NvmlGetDriverInfo
  \/ GetDriverInfoStep
  \/ NvmlGetAllDevices
  \/ GetAllDevicesStep
  \/ NvmlGetAllGpuStatus
  \/ GetAllGpuStatusStep
  \/ NvmlGetSystemSnapshot
  \/ GetSystemSnapshotStep
  \/ DeviceGetByIndex
  \/ DeviceGetByUUID
  \/ DeviceQuery
  \/ DeviceGetBasicInfo
  \/ GetBasicInfoStep
  \/ DeviceGetStatus
  \/ GetStatusStep
  \/ DeviceGetProcesses
  \/ GetProcessesStep
  \/ ClientContinues
  \/ ClientDrops

Spec == Init /\ [][Next]_vars

-----------------------------------------------------------------------------
(* The library manager's exports, bindings/index.ts, and a client that     *)
(* starts cold and loads, binds and releases                               *)

\* The number of times the library is loaded here.
MaxLoads == 2

\* isLibraryLoaded(): `lib !== null`
isLibraryLoaded == lib # 0

\* unloadLibrary(): `lib = null; libraryPath = null`.  The `_xxx` caches are
\* variables of the binding modules; it does not touch them.
unloadLibrary == [NoCall EXCEPT !.lib = 0]

GetLibrary ==
  LET g == getLibrary IN
  /\ Atomic("getLibrary", lib,
            [NoCall EXCEPT !.lib = g.lib, !.loads = g.loads, !.events = g.events],
            IF g.threw THEN Throw(g.error) ELSE Return(g.lib))
  /\ UNCHANGED <<initialized, lastLife, held>>

IsLibraryLoaded ==
  /\ Atomic("isLibraryLoaded", lib, NoCall, Return(isLibraryLoaded))
  /\ UNCHANGED <<initialized, lastLife, held>>

UnloadLibrary ==
  /\ loads < MaxLoads
  /\ Atomic("unloadLibrary", lib, unloadLibrary, Return(Undefined))
  /\ UNCHANGED <<initialized, lastLife, held>>

\* Device.getByIndex(0)
FirstDevice == DeviceGetByIndex /\ call'.arg = IndexArg(TRUE, 0)

\* device.getFanSpeed()
FanSpeed == DeviceQuery /\ call'.op = "getFanSpeed"

\* A library of an older driver: it does not export nvmlDeviceGetFanSpeed.
OldLibrary == Machine(TRUE, {"nvmlDeviceGetFanSpeed"})

\* Machines without a loadable library: NVML_LIBRARY_PATH unset, naming a
\* file, or naming nothing; an absolute default path on disk or none.
Unloadable ==
  {[NoLibrary EXCEPT !.envPath = e, !.onDisk = d] :
     e \in {"unset", "exists", "absent"},
     d \in {{}, {"/usr/lib64/libnvidia-ml.so.1"}}}

InitBind ==
  /\ env \in {FullLibrary, OldLibrary} \cup Unloadable
  /\ Cold
  /\ held = NoDev
  /\ call = NoTopCall
  /\ stack = <<>>
  /\ retval = NoRet
  /\ trace = <<>>
  /\ outcome = NoOutcome

NextBind ==
  \/ NvmlInit
  \/ NvmlGetDeviceCount
  \/ FirstDevice
  \/ FanSpeed
  \/ GetLibrary
  \/ IsLibraryLoaded
  \/ UnloadLibrary
  \/ ClientContinues

SpecBind == InitBind /\ [][NextBind]_vars

-----------------------------------------------------------------------------
(* Device lookups on a machine with a settled number of devices *)

\* An initialized process on a machine with n devices, n in 0..MaxCount.
InitSys ==
  /\ Warm
  /\ \E n \in 0..MaxCount : env = [FullLibrary EXCEPT !.settled = TRUE, !.devices = n]
  /\ held = NoDev
  /\ call = NoTopCall
  /\ stack = <<>>
  /\ retval = NoRet
  /\ trace = <<>>
  /\ outcome = NoOutcome

NextSys ==
  \/ NvmlGetDeviceCount
  \/ NvmlGetDevice
  \/ DeviceGetByIndex
  \/ NvmlGetAllDevices
  \/ GetAllDevicesStep
  \/ NvmlShutdown
  \/ NvmlInit
  \/ ClientContinues
  \/ ClientDrops

SpecSys == InitSys /\ [][NextSys]_vars

-----------------------------------------------------------------------------
(* The Result helpers map and andThen, result.ts *)

\* The largest value held by a successful Result here.
MaxVal == 2

\* The callbacks a client passes: to map, a function on values; to andThen, a
\* function from values to Results.
MapFns == {"double", "zero"}
ChainFns == {"okDouble", "fail"}

\* fn(value)
Apply(fn, value) ==
  CASE fn = "double" -> 2 * value
    [] fn = "zero" -> 0
    [] fn = "okDouble" -> ok(2 * value)
    [] fn = "fail" -> errFromReturn(ERROR_NOT_FOUND, "chained")

\* The callback was invoked with this value.
ApplyEv(fn, value) == Ev("apply", fn, value, 0, 0)

\* The Results a client holds.
Results ==
  {ok(v) : v \in 0..MaxVal} \cup {errFromReturn(r, "Error") : r \in FailCodes}

\* A map() that hands a failure's place to the callback as well.
map_appliesAlways(result, fn) ==
  [value |-> ok(Apply(fn, 0)), events |-> <<ApplyEv(fn, 0)>>]

\* map(result, fn): what it returns and the callback invocations it made
map(result, fn) ==
  IF result.ok
  THEN [value |-> ok(Apply(fn, result.value)), events |-> <<ApplyEv(fn, result.value)>>]
  ELSE [value |-> result, events |-> <<>>]

\* andThen(result, fn)
andThen(result, fn) ==
  IF result.ok
  THEN [value |-> Apply(fn, result.value), events |-> <<ApplyEv(fn, result.value)>>]
  ELSE [value |-> result, events |-> <<>>]

ResultMap ==
  \E result \in Results, fn \in MapFns :
    LET m == map(result, fn) IN
    /\ Atomic("map", [result |-> result, fn |-> fn], [NoCall EXCEPT !.events = m.events],
              Return(m.value))
    /\ UNCHANGED <<initialized, lastLife, held>>

ResultAndThen ==
  \E result \in Results, fn \in ChainFns :
    LET m == andThen(result, fn) IN
    /\ Atomic("andThen", [result |-> result, fn |-> fn], [NoCall EXCEPT !.events = m.events],
              Return(m.value))
    /\ UNCHANGED <<initialized, lastLife, held>>

-----------------------------------------------------------------------------
(* The CUDA version queries over the integers the driver may report *)

\* The largest major version reported here.
MaxMajor == 12

\* The integers the driver may write: every value below 1000 on top of the
\* smallest and of the largest major version.
Versions == {1000 * M + k : M \in {0, MaxMajor}, k \in 0..999}

InitCuda ==
  /\ Warm
  /\ env = [FullLibrary EXCEPT !.cuda = Versions]
  /\ held = NoDev
  /\ call = NoTopCall
  /\ stack = <<>>
  /\ retval = NoRet
  /\ trace = <<>>
  /\ outcome = NoOutcome

NextCuda ==
  \/ NvmlGetCudaVersion
  \/ NvmlGetDriverInfo
  \/ GetDriverInfoStep
  \/ ClientContinues

SpecCuda == InitCuda /\ [][NextCuda]_vars

-----------------------------------------------------------------------------
(* The text queries over the buffer contents the native layer may leave *)

\* The size of a text buffer here.
BufferSize == 3

\* Every content of a buffer of two letters and NUL.
Buffers == [1..BufferSize -> {"A", "B", NUL}]

\* device.getName() or device.getUUID()
TextQuery == DeviceQuery /\ call'.op \in {"getName", "getUUID"}

InitText ==
  /\ Warm
  /\ env = [FullLibrary EXCEPT !.buffers = Buffers]
  /\ held = Dev(HandleOf(0), 0)
  /\ call = NoTopCall
  /\ stack = <<>>
  /\ retval = NoRet
  /\ trace = <<>>
  /\ outcome = NoOutcome

NextText ==
  \/ TextQuery
  \/ NvmlGetDriverVersion
  \/ NvmlGetNvmlVersion
  \/ ClientContinues

SpecText == InitText /\ [][NextText]_vars

-----------------------------------------------------------------------------
(* The pure functions of the wrapper, applied to inputs a client or the    *)
(* native layer may give them                                              *)

\* Machines as library discovery sees them: NVML_LIBRARY_PATH unset, empty,
\* naming a file, or naming nothing; which absolute default paths are on disk; whether
\* the library loads.
Machines ==
  {[Machine(p, {}) EXCEPT !.envPath = e, !.onDisk = d] :
     p \in BOOLEAN,
     e \in {"unset", "empty", "exists", "absent"},
     d \in SUBSET {"/usr/lib64/libnvidia-ml.so.1", "/usr/local/cuda/lib64/stubs/libnvidia-ml.so"}}

InitPure ==
  /\ env \in Machines
  /\ Cold
  /\ held = NoDev
  /\ call = NoTopCall
  /\ stack = <<>>
  /\ retval = NoRet
  /\ trace = <<>>
  /\ outcome = NoOutcome

\* The array positions (0-based) a process entry is written to here: the
\* first two and the last two of the MAX_PROCESSES the wrapper allocates.
Slots == {0, 1, MAX_PROCESSES - 2, MAX_PROCESSES - 1}

\* The counts the native enumeration may write back: none, some, the
\* capacity, and more than the capacity.
Counts == {0, 1, 2, MAX_PROCESSES - 1, MAX_PROCESSES, MAX_PROCESSES + 1, 2 * MAX_PROCESSES}

\* The `infos` array after the native call: the slots of `filled` hold a
\* process, every other entry is as allocated.
InfosWith(filled) ==
  [k \in 1..MAX_PROCESSES |->
     IF k - 1 \in filled THEN [pid |-> 100 + k, usedGpuMemory |-> k * (1024 * 1024)]
     ELSE EmptyInfo]

\* What the native enumeration may leave in the count cell and the array.
Enumerations == {[count |-> c, infos |-> InfosWith(filled)] : c \in Counts, filled \in SUBSET Slots}

\* The extraction of nvmlDeviceGet{Compute,Graphics}RunningProcesses applied to
\* what the native call left.
ExtractProcesses ==
  \E out \in Enumerations :
    /\ Atomic("extractProcesses", out, NoCall, Return(DecodeProcesses(out)))
    /\ UNCHANGED <<initialized, lastLife, held>>

\* findLibraryPath() called by a client (it is exported from the package).
FindLibraryPath ==
  /\ Atomic("findLibraryPath", Undefined,
            [NoCall EXCEPT !.events = findLibraryPath_effects], Return(findLibraryPath))
  /\ UNCHANGED <<initialized, lastLife, held>>

NextPure ==
  \/ ResultMap
  \/ ResultAndThen
  \/ ExtractProcesses
  \/ FindLibraryPath
  \/ GetLibrary
  \/ ClientContinues

SpecPure == InitPure /\ [][NextPure]_vars

-----------------------------------------------------------------------------
(* Device.getProcesses over the process lists the native layer may write *)

\* The longest process list a device reports here.
MaxProcs == 2

MiB == 1024 * 1024

\* The entries the native enumerations write: an unused slot (pid 0), one
\* process with two memory figures, a second process.
ProcInfos ==
  {[pid |-> 0, usedGpuMemory |-> 0],
   [pid |-> 7, usedGpuMemory |-> MiB],
   [pid |-> 7, usedGpuMemory |-> 3 * MiB + 5],
   [pid |-> 8, usedGpuMemory |-> MiB]}

ProcLists == UNION {[1..n -> ProcInfos] : n \in 0..MaxProcs}

\* What an enumeration writes for the list infos: the count and the entries.
Listed(infos) == [count |-> Len(infos), infos |-> infos]

\* An initialized process holding the Device of index 0, on a machine whose
\* compute and graphics lists are any of ProcLists.
InitProc ==
  /\ Warm
  /\ \E c \in ProcLists, g \in ProcLists :
       env = [FullLibrary EXCEPT
                !.procs = [h \in Handles |-> [compute |-> Listed(c), graphics |-> Listed(g)]]]
  /\ held = Dev(HandleOf(0), 0)
  /\ call = NoTopCall
  /\ stack = <<>>
  /\ retval = NoRet
  /\ trace = <<>>
  /\ outcome = NoOutcome

NextProc ==
  \/ DeviceGetProcesses
  \/ GetProcessesStep
  \/ ClientContinues

SpecProc == InitProc /\ [][NextProc]_vars

-----------------------------------------------------------------------------
(* getSystemSnapshot on a machine where one process runs on every device *)

\* Process 7 runs on every device, as a compute and as a graphics process;
\* each device has a graphics process of its own besides.
SharedTable ==
  [h \in Handles |->
     [compute |-> Listed(<<[pid |-> 7, usedGpuMemory |-> 3 * MiB + 5]>>),
      graphics |-> Listed(<<[pid |-> 7, usedGpuMemory |-> MiB],
                            [pid |-> 7 + h, usedGpuMemory |-> MiB]>>)]]

InitSnap ==
  /\ Warm
  /\ env = [FullLibrary EXCEPT !.procs = SharedTable]
  /\ held = NoDev
  /\ call = NoTopCall
  /\ stack = <<>>
  /\ retval = NoRet
  /\ trace = <<>>
  /\ outcome = NoOutcome

NextSnap ==
  \/ NvmlGetSystemSnapshot
  \/ GetSystemSnapshotStep
  \/ GetDriverInfoStep
  \/ GetAllGpuStatusStep
  \/ GetStatusStep
  \/ GetProcessesStep
  \/ ClientContinues

SpecSnap == InitSnap /\ [][NextSnap]_vars

-----------------------------------------------------------------------------
(* Vocabulary of the properties *)

\* The top-level call has ended and the client has not yet gone on.
Done == stack = <<>> /\ outcome.kind \in {"return", "throw"}

LastEv == trace[Len(trace)]

\* The last thing the call did was a native invocation.
EndedOnInvoke == trace # <<>> /\ LastEv.ev = "invoke"

NoInvoke == \A k \in 1..Len(trace) : trace[k].ev # "invoke"

NamespaceQueries ==
  {"getDeviceCount", "getDevice", "getDeviceByUUID", "getAllDevices", "getDriverInfo",
   "getDriverVersion", "getNvmlVersion", "getCudaVersion", "getAllGpuStatus",
   "getSystemSnapshot"}

DeviceConstructors == {"getByIndex", "getByUUID"}

DeviceOps ==
  DeviceConstructors \cup FieldMethods \cup {"getBasicInfo", "getStatus", "getProcesses"}

NullableNatives ==
  {"nvmlDeviceGetFanSpeed", "nvmlDeviceGetMigMode", "nvmlDeviceGetTotalEccErrors"}

\* A nonzero status the wrapper deliberately does not report as a failure.
Tolerated(e) ==
  \/ e.fn = "nvmlSystemGetProcessName"
  \/ e.ret = ERROR_NOT_SUPPORTED /\ e.fn \in NullableNatives

\* The call ended as a thrown NvmlError with this code.
ThrewCode(code) ==
  outcome.kind = "throw" /\ outcome.error.name = "NvmlError" /\ outcome.error.code = code

\* The call ended as a returned Result failure with this code.
ReturnedFailure(code) ==
  /\ outcome.kind = "return"
  /\ ~outcome.value.ok
  /\ outcome.value.error.name = "NvmlError"
  /\ outcome.value.error.code = code

-----------------------------------------------------------------------------
(* C1 *)

\* C1: the lifecycle flag is set exactly when the most recent lifecycle call
\* that succeeded was an init(); it is clear before any init() succeeded, no
\* other operation and no failed lifecycle call changes it, and isInitialized()
\* returns it.
C1_FlagTracksLastSuccessfulLifecycleCall ==
  /\ initialized <=> (lastLife = "init")
  /\ (Done /\ call.op = "isInitialized") =>
       (outcome.kind = "return" /\ outcome.value = (lastLife = "init"))
  /\ (call.op \notin {"init", "shutdown", "none"}) => (initialized = call.initAtCall)

\* isInitialized() answered false after a successful shutdown() that followed a
\* successful init().
C1_Witness ==
  /\ Done
  /\ call.op = "isInitialized"
  /\ lastLife = "shutdown"
  /\ outcome.value = FALSE

-----------------------------------------------------------------------------
(* C2 *)

\* C2: a namespace-level query called while the flag is clear touches nothing
\* at the native boundary (no load, no symbol resolution, no invocation) and
\* ends by throwing an NvmlError whose code is ERROR_UNINITIALIZED.
C2_UninitializedNamespaceQueryFailsUntouched ==
  (call.op \in NamespaceQueries /\ ~call.initAtCall) =>
     /\ trace = <<>>
     /\ Len(stack) <= 1
     /\ Done => ThrewCode(ERROR_UNINITIALIZED)

\* getSystemSnapshot() was refused in a process that never loaded the library.
C2_Witness ==
  /\ Done
  /\ call.op = "getSystemSnapshot"
  /\ ~call.initAtCall
  /\ lib = 0
  /\ ThrewCode(ERROR_UNINITIALIZED)

-----------------------------------------------------------------------------
(* C3 *)

\* The arguments of the call pass the validation of the Device constructors.
ArgsWellFormed ==
  /\ call.op = "getByIndex" => ValidIndex(call.arg)
  /\ call.op = "getByUUID" => ValidUuid(call.arg)

\* The call failed with the uninitialized code, in the form its signature has.
FailedUninitialized ==
  IF call.op \in DeviceConstructors THEN ThrewCode(ERROR_UNINITIALIZED)
  ELSE ReturnedFailure(ERROR_UNINITIALIZED)

\* A native function other than the process-name lookup answered "uninitialized".
NativeSaidUninitialized ==
  \E k \in 1..Len(trace) :
    /\ trace[k].ev = "invoke"
    /\ trace[k].ret = ERROR_UNINITIALIZED
    /\ trace[k].fn # "nvmlSystemGetProcessName"

\* C3 as stated: a Device query made while the flag is clear fails with the
\* uninitialized error and never reaches the native layer.
C3_AsStated ==
  (Done /\ call.op \in DeviceOps /\ ~call.initAtCall) =>
     (FailedUninitialized /\ NoInvoke)

\* C3: the Device queries do not consult the lifecycle flag.  Made with
\* well-formed arguments while the flag is clear, a Device query still goes to
\* the binding layer, and it fails with the uninitialized code exactly when a
\* native function (the process-name lookup apart) answered with that status.
C3_DeviceQueriesAreNotGated ==
  (Done /\ call.op \in DeviceOps /\ ~call.initAtCall /\ ArgsWellFormed) =>
     /\ trace # <<>>
     /\ FailedUninitialized <=> NativeSaidUninitialized

\* getStatus() succeeded after shutdown() on a Device obtained before it.
C3_Witness ==
  /\ Done
  /\ call.op = "getStatus"
  /\ ~call.initAtCall
  /\ held.initAtGet
  /\ outcome.kind = "return"
  /\ outcome.value.ok

-----------------------------------------------------------------------------
(* C4 *)

\* The lifecycle call did not succeed: the library or the symbol could not be
\* acquired, or the native entry point returned a nonzero status.
LifecycleCallFailed == ~EndedOnInvoke \/ LastEv.ret # SUCCESS

\* C4: a failed init() or shutdown() throws, leaves the flag as it was before
\* the call, and when the native entry point was the one that failed the error
\* thrown is an NvmlError carrying that status.
C4_FailedLifecycleCallThrowsAndKeepsFlag ==
  (Done /\ call.op \in {"init", "shutdown"} /\ LifecycleCallFailed) =>
     /\ outcome.kind = "throw"
     /\ initialized = call.initAtCall
     /\ EndedOnInvoke => ThrewCode(LastEv.ret)

\* shutdown() failed natively while initialized, and the flag stayed set.
C4_Witness ==
  /\ Done
  /\ call.op = "shutdown"
  /\ call.initAtCall
  /\ EndedOnInvoke
  /\ LastEv.ret = ERROR_GPU_IS_LOST
  /\ ThrewCode(ERROR_GPU_IS_LOST)
  /\ initialized

-----------------------------------------------------------------------------
(* C5 *)

\* The call ended on a native invocation whose nonzero status is a failure.
EndedOnNativeFailure ==
  EndedOnInvoke /\ LastEv.ret # SUCCESS /\ ~Tolerated(LastEv)

\* The native failure came from a function whose wrapper throws: a handle
\* lookup, or the count query of getDeviceCount() (which getAllDevices() calls).
FromThrowingWrapper ==
  \/ LastEv.fn \in {"nvmlDeviceGetHandleByIndex", "nvmlDeviceGetHandleByUUID"}
  \/ LastEv.fn = "nvmlDeviceGetCount" /\ call.op \in {"getDeviceCount", "getAllDevices"}

-----------------------------------------------------------------------------
(* C6 *)

NullableMethods == {"getFanSpeed", "getMigMode", "getEccErrorsCorrected"}

\* C6: a single-field Device query whose native call returned a nonzero status
\* returns ok(null) when the status is ERROR_NOT_SUPPORTED and the query is
\* getFanSpeed, getMigMode or getEccErrorsCorrected, and a failure carrying the
\* status in every other case.
C6_NotSupportedIsNullForThreeQueriesOnly ==
  (Done /\ call.op \in FieldMethods /\ EndedOnInvoke /\ LastEv.ret # SUCCESS) =>
     /\ NativeOf(call.op) \in NullableNatives <=> call.op \in NullableMethods
     /\ IF LastEv.ret = ERROR_NOT_SUPPORTED /\ call.op \in NullableMethods
        THEN outcome.kind = "return" /\ outcome.value.ok /\ outcome.value.value = Null
        ELSE ReturnedFailure(LastEv.ret)

\* getEccErrorsCorrected() returned ok(null) for ERROR_NOT_SUPPORTED.
C6_Witness ==
  /\ Done
  /\ call.op = "getEccErrorsCorrected"
  /\ EndedOnInvoke
  /\ LastEv.ret = ERROR_NOT_SUPPORTED
  /\ outcome.kind = "return"
  /\ outcome.value.ok
  /\ outcome.value.value = Null

-----------------------------------------------------------------------------
(* C7 *)

\* The native invocations of the call, in order.
Invokes == SelectSeq(trace, LAMBDA e : e.ev = "invoke")

\* A native answer the wrapper reports as a failure.
IsFailure(e) == e.ret # SUCCESS /\ ~Tolerated(e)

\* The native functions behind the order C7 gives for getStatus: name,
\* persistence mode, PCI info, display active, ECC errors, fan speed,
\* temperature, P-state, power usage, power limit, memory, utilization,
\* compute mode, MIG mode.
StatusNatives ==
  <<"nvmlDeviceGetName", "nvmlDeviceGetPersistenceMode", "nvmlDeviceGetPciInfo",
    "nvmlDeviceGetDisplayActive", "nvmlDeviceGetTotalEccErrors", "nvmlDeviceGetFanSpeed",
    "nvmlDeviceGetTemperature", "nvmlDeviceGetPerformanceState", "nvmlDeviceGetPowerUsage",
    "nvmlDeviceGetPowerManagementLimit", "nvmlDeviceGetMemoryInfo",
    "nvmlDeviceGetUtilizationRates", "nvmlDeviceGetComputeMode", "nvmlDeviceGetMigMode">>

\* ... and for getBasicInfo: name, memory.
BasicInfoNatives == <<"nvmlDeviceGetName", "nvmlDeviceGetMemoryInfo">>

\* What the single-field query behind native function fn returns for status ret.
SingleFieldResult(fn, ret) ==
  DeviceField(CHOOSE m \in FieldMethods : NativeOf(m) = fn, ret, fn)

\* The call queried the held Device in this order, stopped at the first
\* failure, and returned that failure as the single-field query gives it.
QueriesInOrder(order) ==
  LET inv == Invokes IN
  /\ Len(inv) <= Len(order)
  /\ \A k \in 1..Len(inv) : inv[k].fn = order[k] /\ inv[k].arg = held.handle
  /\ \A k \in 1..(Len(inv) - 1) : ~IsFailure(inv[k])
  /\ (Done /\ outcome.kind = "return") =>
       /\ inv # <<>>
       /\ IF outcome.value.ok
          THEN Len(inv) = Len(order) /\ ~IsFailure(inv[Len(inv)])
          ELSE /\ IsFailure(inv[Len(inv)])
               /\ outcome.value = SingleFieldResult(inv[Len(inv)].fn, inv[Len(inv)].ret)

\* C7: getStatus queries name, persistence mode, PCI info, display active, ECC
\* errors, fan speed, temperature, P-state, power usage, power limit, memory,
\* utilization, compute mode and MIG mode in that order, and getBasicInfo name
\* then memory; each stops at the first query that fails, makes no later
\* query, and returns exactly the failure that query returned.
C7_CompositesQueryInOrderAndStopAtFirstFailure ==
  /\ call.op = "getStatus" => QueriesInOrder(StatusNatives)
  /\ call.op = "getBasicInfo" => QueriesInOrder(BasicInfoNatives)

\* getStatus() got "not supported" for the ECC counter, went on, and stopped at
\* the fan speed, whose failure it returned.
C7_Witness ==
  /\ Done
  /\ call.op = "getStatus"
  /\ Len(Invokes) = 6
  /\ Invokes[5].ret = ERROR_NOT_SUPPORTED
  /\ Invokes[6].ret = ERROR_GPU_IS_LOST
  /\ outcome.kind = "return"
  /\ outcome.value = errFromReturn(ERROR_GPU_IS_LOST, "Failed to get fan speed")

-----------------------------------------------------------------------------
(* C8 *)

\* The positions in inv of the handle lookups.
LookupPositions(inv) == {k \in 1..Len(inv) : inv[k].fn = "nvmlDeviceGetHandleByIndex"}

\* The position of a status query's native function in the getStatus order.
StatusPosition(fn) == CHOOSE p \in 1..Len(StatusNatives) : StatusNatives[p] = fn

\* C8: getAllGpuStatus looks devices up at indices 0, 1, ... below the count
\* it read, finishing the status of one device before the next lookup; once a
\* status query fails nothing more is invoked and that query's failure is
\* the result; otherwise the result holds one status per index 0..count-1, in
\* index order.
C8_AllGpuStatusInIndexOrderFailFast ==
  (call.op = "getAllGpuStatus" /\ call.initAtCall /\ Invokes # <<>>) =>
    LET inv == Invokes
        count == inv[1].out
        lookups == LookupPositions(inv) IN
    /\ inv[1].fn = "nvmlDeviceGetCount"
    /\ \A k \in 1..(Len(inv) - 1) : ~IsFailure(inv[k])
    /\ \A k \in 2..Len(inv) :
         IF k \in lookups
         THEN /\ inv[k].arg = Cardinality({j \in lookups : j < k})
              /\ inv[k].arg < count
              /\ k = 2 + 15 * inv[k].arg
         ELSE /\ inv[k].fn \in DeviceFieldFns
              /\ LET l == CHOOSE j \in lookups : j < k /\ \A i \in lookups : i < k => i <= j IN
                 /\ inv[k].arg = inv[l].out
                 /\ k - l = StatusPosition(inv[k].fn)
    /\ (Done /\ outcome.kind = "return") =>
         IF outcome.value.ok
         THEN /\ Len(outcome.value.value) = count
              /\ \A j \in 1..count : outcome.value.value[j].index = j - 1
              /\ Cardinality(lookups) = count
              /\ Len(inv) = 1 + 15 * count
         ELSE /\ IsFailure(inv[Len(inv)])
              /\ IF Len(inv) = 1
                 THEN ReturnedFailure(inv[1].ret)
                 ELSE outcome.value = SingleFieldResult(inv[Len(inv)].fn, inv[Len(inv)].ret)

\* getAllGpuStatus() completed device 0 and returned the failure of the
\* temperature query of device 1.
C8_Witness ==
  /\ Done
  /\ call.op = "getAllGpuStatus"
  /\ call.initAtCall
  /\ Cardinality(LookupPositions(Invokes)) = 2
  /\ LastEv.fn = "nvmlDeviceGetTemperature"
  /\ LastEv.arg = HandleOf(1)
  /\ outcome.kind = "return"
  /\ outcome.value = errFromReturn(ERROR_GPU_IS_LOST, "Failed to get temperature")

-----------------------------------------------------------------------------
(* C9 *)

ClockReads == {k \in 1..Len(trace) : trace[k].ev = "clock"}

ProcessNatives == ProcessFns \cup {"nvmlSystemGetProcessName"}

\* C9 as stated: the clock is read at most once (once in a snapshot that
\* succeeds), and no process enumeration is invoked before it is read.
C9_AsStated ==
  (call.op = "getSystemSnapshot" /\ call.initAtCall) =>
     /\ Cardinality(ClockReads) <= 1
     /\ \A k \in 1..Len(trace) :
          trace[k].fn \in ProcessNatives => \E c \in ClockReads : c < k
     /\ (Done /\ outcome.kind = "return" /\ outcome.value.ok) => ClockReads # {}

\* C9: getSystemSnapshot reads the clock exactly once, as the last thing a
\* snapshot that succeeds does: after driver info, the GPU statuses, the
\* second device count and every per-device process enumeration.  A snapshot
\* that fails or is still running has read no clock.
C9_TimestampReadLastAndOnlyOnSuccess ==
  (call.op = "getSystemSnapshot" /\ call.initAtCall) =>
     /\ \A k \in ClockReads :
          k = Len(trace) /\ Done /\ outcome.kind = "return" /\ outcome.value.ok
     /\ (Done /\ outcome.kind = "return" /\ outcome.value.ok) =>
          (trace # <<>> /\ LastEv.ev = "clock")

\* A snapshot succeeded whose process-name lookup came before the clock read.
C9_Witness ==
  /\ Done
  /\ call.op = "getSystemSnapshot"
  /\ outcome.kind = "return"
  /\ outcome.value.ok
  /\ LastEv.ev = "clock"
  /\ \E k \in 1..Len(trace) : trace[k].fn = "nvmlSystemGetProcessName"

-----------------------------------------------------------------------------
(* C10 *)

CountQueries == {k \in 1..Len(trace) : trace[k].ev = "invoke" /\ trace[k].fn = "nvmlDeviceGetCount"}

\* C10: an aggregate call invokes the native device count at most once (once
\* when it succeeds), and every device index it looks up is below that count.
C10_AsStated ==
  (call.op \in {"getAllDevices", "getAllGpuStatus", "getSystemSnapshot"} /\ call.initAtCall) =>
     /\ Cardinality(CountQueries) <= 1
     /\ \A k \in LookupPositions(trace) :
          \E c \in CountQueries : c < k /\ trace[k].arg < trace[c].out
     /\ (Done /\ outcome.kind = "return" /\ (call.op = "getAllDevices" \/ outcome.value.ok)) =>
          Cardinality(CountQueries) = 1

-----------------------------------------------------------------------------
(* C11 *)

\* getProcesses has returned a success.
GotProcesses ==
  Done /\ call.op = "getProcesses" /\ outcome.kind = "return" /\ outcome.value.ok

\* The lists the two enumerations returned for the held Device, compute first.
RawOf(dev) ==
  DecodeProcesses(env.procs[dev.handle].compute)
    \o DecodeProcesses(env.procs[dev.handle].graphics)

PidsOf(list) == {list[k].pid : k \in 1..Len(list)}

\* The position of the first entry of raw with this pid.
FirstAt(raw, pid) ==
  CHOOSE k \in 1..Len(raw) : raw[k].pid = pid /\ \A j \in 1..(k - 1) : raw[j].pid # pid

\* C11: a successful getProcesses has exactly one entry per distinct pid of
\* the compute and graphics lists, in the order of the pids' first occurrence
\* in (compute then graphics), each with the memory figure of that first
\* occurrence.
C11_OneEntryPerPidInFirstOccurrenceOrder ==
  GotProcesses =>
    LET raw == RawOf(held)
        res == outcome.value.value IN
    /\ PidsOf(res) = PidsOf(raw)
    /\ \A i \in 1..Len(res), j \in 1..Len(res) :
         i < j => FirstAt(raw, res[i].pid) < FirstAt(raw, res[j].pid)
    /\ \A j \in 1..Len(res) :
         res[j].usedMemoryMiB = raw[FirstAt(raw, res[j].pid)].usedGpuMemory \div MiB

\* A process listed as compute and as graphics process with different memory
\* figures, and a second process: two entries come back.
C11_Witness ==
  /\ GotProcesses
  /\ Len(outcome.value.value) = 2
  /\ LET c == DecodeProcesses(env.procs[held.handle].compute)
         g == DecodeProcesses(env.procs[held.handle].graphics) IN
     \E i \in 1..Len(c), j \in 1..Len(g) :
        c[i].pid = g[j].pid /\ c[i].usedGpuMemory # g[j].usedGpuMemory

-----------------------------------------------------------------------------
(* C12 *)

\* Both enumerations of the running getProcesses have succeeded.
EnumerationsSucceeded ==
  /\ call.op = "getProcesses"
  /\ Len(Invokes) >= 2
  /\ Invokes[1].fn = "nvmlDeviceGetComputeRunningProcesses" /\ isSuccess(Invokes[1].ret)
  /\ Invokes[2].fn = "nvmlDeviceGetGraphicsRunningProcesses" /\ isSuccess(Invokes[2].ret)

\* The name queries of the call that gave a nonzero status.
FailedNameQueries ==
  {k \in 1..Len(Invokes) :
     Invokes[k].fn = "nvmlSystemGetProcessName" /\ ~isSuccess(Invokes[k].ret)}

\* C12: once both enumerations have succeeded, a name query with a nonzero
\* status does not fail getProcesses: the call returns a success holding every
\* retained process, and the process whose name query failed is named "pid:"
\* followed by its pid.
C12_FailedNameLookupGivesPidPlaceholder ==
  (Done /\ EnumerationsSucceeded) =>
    /\ outcome.kind = "return" /\ outcome.value.ok
    /\ LET res == outcome.value.value IN
       /\ PidsOf(res) = PidsOf(RawOf(held))
       /\ \A k \in FailedNameQueries :
            \E j \in 1..Len(res) :
               /\ res[j].pid = Invokes[k].arg
               /\ res[j].processName = <<"pid:", Invokes[k].arg>>

\* Two processes, the name query of the first failed and that of the second
\* succeeded.
C12_Witness ==
  /\ GotProcesses
  /\ Len(outcome.value.value) = 2
  /\ Len(Invokes) = 4
  /\ FailedNameQueries = {3}
  /\ outcome.value.value[1].processName = <<"pid:", outcome.value.value[1].pid>>

-----------------------------------------------------------------------------
(* C13 *)

\* The native-boundary events of this step.
NewEvents ==
  IF Len(trace') >= Len(trace) THEN SubSeq(trace', Len(trace) + 1, Len(trace')) ELSE <<>>

EventsOf(events, kinds) == {k \in 1..Len(events) : events[k].ev \in kinds}

\* This step is a top-level call of op.
Calls(op) == Idle /\ call'.op = op

\* C13: between releases the library is loaded at most once.  While a handle
\* is held, no step other than unloadLibrary() changes it, discovers or
\* loads, and getLibrary() returns that handle; with none held, getLibrary()
\* discovers and loads, and on success holds and returns a fresh handle;
\* after unloadLibrary() none is held; isLibraryLoaded() tells whether one is.
C13_LoadedAtMostOnceBetweenReleases ==
  [][ /\ (lib # 0 /\ ~Calls("unloadLibrary")) =>
           /\ lib' = lib /\ loads' = loads
           /\ EventsOf(NewEvents, {"discover", "load"}) = {}
      /\ (lib # 0 /\ Calls("getLibrary")) => outcome' = Return(lib)
      /\ (lib = 0 /\ Calls("getLibrary")) =>
           /\ NewEvents = <<DiscoverEv(TRUE), LoadEv(lib' # 0)>>
           /\ IF env.libPresent
              THEN lib' = loads + 1 /\ loads' = loads + 1 /\ outcome' = Return(lib')
              ELSE lib' = 0 /\ loads' = loads /\ outcome'.kind = "throw"
      /\ Calls("unloadLibrary") => lib' = 0
      /\ Calls("isLibraryLoaded") => outcome' = Return(lib # 0) /\ lib' = lib
    ]_vars

\* The library was loaded, released and loaded again, and a further
\* getLibrary() has returned the second handle.
C13_Witness ==
  /\ Done
  /\ call.op = "getLibrary"
  /\ call.arg = 2
  /\ trace = <<>>
  /\ outcome = Return(2)
  /\ loads = 2

-----------------------------------------------------------------------------
(* C14 *)

\* The positions of this step's events of these kinds that concern fn.
StepEvents(fn, kinds) ==
  {k \in EventsOf(NewEvents, kinds) : NewEvents[k].fn = fn}

\* C14: symbols are resolved lazily and cached.  Nothing is resolved when the
\* process starts.  A symbol not yet resolved is resolved only by a step that
\* invokes its own native function, just before the invocation, and the first
\* invocation resolves it.  Once resolved, the cached callable stays, and a
\* step that invokes the function resolves no symbol and acquires no library:
\* the invocation is the step's only event.
C14_SymbolsResolvedLazilyAndCached ==
  /\ \A fn \in Fns : bound[fn] = 0
  /\ [][ \A fn \in Fns :
          LET resolved == StepEvents(fn, {"resolve"})
              invoked == StepEvents(fn, {"invoke"}) IN
          /\ bound[fn] = 0 =>
               /\ bound'[fn] # 0 <=> (\E k \in resolved : NewEvents[k].ret = 0)
               /\ \A k \in resolved : NewEvents[k].ret = 0 => k + 1 \in invoked
               /\ invoked # {} => resolved # {}
          /\ bound[fn] # 0 =>
               /\ bound'[fn] = bound[fn]
               /\ resolved = {}
               /\ invoked # {} => Len(NewEvents) = 1
        ]_vars

\* After init(), a second getDeviceCount() has invoked the cached callable and
\* nothing else, while the fan speed symbol is still unresolved.
C14_Witness ==
  /\ Done
  /\ call.op = "getDeviceCount"
  /\ initialized
  /\ trace # <<>> /\ Len(trace) = 1 /\ trace[1].ev = "invoke"
  /\ bound["nvmlDeviceGetCount"] # 0
  /\ bound["nvmlInit"] # 0
  /\ bound["nvmlDeviceGetFanSpeed"] = 0

-----------------------------------------------------------------------------
(* C15 *)

\* C15: a release invalidates the symbol cache, so that a native function is
\* only ever invoked through a callable resolved against the handle that is
\* loaded at the time of the invocation.
C15_AsStated ==
  (Done /\ EndedOnInvoke) => (lib # 0 /\ bound[LastEv.fn] = lib)

-----------------------------------------------------------------------------
(* C16 *)

\* C16: a failed resolution is permanent and is not attempted again: no step
\* resolves the symbol whose resolution was the last one to fail.
C16_AsStated ==
  [][ \A fn \in Fns : lastMiss = fn => StepEvents(fn, {"resolve"}) = {} ]_vars

-----------------------------------------------------------------------------
(* C17 *)

\* The call tried to resolve a symbol and the library does not export it.
SymbolUnresolved ==
  \E k \in 1..Len(trace) : trace[k].ev = "resolve" /\ trace[k].ret # 0

\* C17: a query whose native symbol cannot be resolved returns a Result
\* failure carrying ERROR_FUNCTION_NOT_FOUND and raises no exception.
C17_AsStated ==
  (Done /\ call.op \in FieldMethods /\ SymbolUnresolved) =>
    ReturnedFailure(ERROR_FUNCTION_NOT_FOUND)

-----------------------------------------------------------------------------
(* C18 *)

\* getLibrary() failed in this call: discovery gave no path or the load threw.
AcquireFailed ==
  /\ Done
  /\ outcome.kind = "throw"
  /\ \E k \in 1..Len(trace) : trace[k].ev \in {"discover", "load"} /\ trace[k].ret # 0

\* The error's message lists every path of getSearchPaths().
CarriesSearchPaths(e) ==
  \A i \in 1..Len(getSearchPaths) :
     \E k \in 1..Len(e.message) : e.message[k] = getSearchPaths[i]

\* C18: when acquiring the library fails, whether discovery found no
\* candidate or loading the candidate failed, the error raised carries the
\* list of the paths searched.
C18_AsStated ==
  AcquireFailed => CarriesSearchPaths(outcome.error)

-----------------------------------------------------------------------------
(* C19 *)

\* The argument of the getDevice() or getDeviceByUUID() call is malformed: an
\* index that is negative or no integer, a UUID of no or only blank characters.
MalformedArg ==
  IF call.op = "getDevice"
  THEN ~call.arg.int \/ call.arg.val < 0
  ELSE \A k \in 1..Len(call.arg) : call.arg[k] = " "

\* The call threw a plain Error, which carries no NVML status.
ThrewPlainError ==
  outcome.kind = "throw" /\ outcome.error.name = "Error" /\ outcome.error.code = NoCode

\* C19: Nvml.getDevice and Nvml.getDeviceByUUID check the lifecycle flag, then
\* the argument, then call the native layer.  Uninitialized, they throw the
\* uninitialized error whatever the argument; initialized with a malformed
\* argument, they throw the invalid-argument Error; in both cases nothing
\* happens at the native boundary.  Initialized with a well-formed argument,
\* they go on to the binding of the native lookup.
C19_GateThenValidationThenNativeCall ==
  (Done /\ call.op \in {"getDevice", "getDeviceByUUID"}) =>
    /\ ~call.initAtCall => (ThrewCode(ERROR_UNINITIALIZED) /\ trace = <<>>)
    /\ (call.initAtCall /\ MalformedArg) => (ThrewPlainError /\ trace = <<>>)
    /\ (call.initAtCall /\ ~MalformedArg) => trace # <<>>

\* Uninitialized and with a negative index, getDevice() has thrown the
\* uninitialized error.
C19_Witness ==
  /\ Done
  /\ call.op = "getDevice"
  /\ ~call.initAtCall
  /\ call.arg = IndexArg(TRUE, -1)
  /\ ThrewCode(ERROR_UNINITIALIZED)
  /\ trace = <<>>

-----------------------------------------------------------------------------
(* C20 *)

\* A lookup by a non-negative integer index that is not below the number of
\* devices has ended; Nvml.getDevice was called initialized.
LookupOutOfRange ==
  /\ Done
  /\ env.settled
  /\ \/ call.op = "getDevice" /\ call.initAtCall
     \/ call.op = "getByIndex"
  /\ call.arg.int /\ call.arg.val >= env.devices

\* C20 as stated: a lookup by an index i >= n on a machine with n devices
\* fails with the not-found code.
C20_AsStated ==
  LookupOutOfRange => ThrewCode(ERROR_NOT_FOUND)

\* C20: a lookup by an index i >= n on a machine with n devices goes to the
\* native lookup and throws an NvmlError carrying the status that lookup
\* returned, which is the invalid-argument code.
C20_OutOfRangeIndexFailsWithNativeStatus ==
  LookupOutOfRange =>
    /\ EndedOnInvoke
    /\ LastEv.fn = "nvmlDeviceGetHandleByIndex"
    /\ LastEv.arg = call.arg.val
    /\ ThrewCode(LastEv.ret)
    /\ LastEv.ret = ERROR_INVALID_ARGUMENT

\* Index 2 on a machine with one device.
C20_Witness ==
  /\ LookupOutOfRange
  /\ env.devices = 1
  /\ call.op = "getDevice"
  /\ call.arg = IndexArg(TRUE, 2)
  /\ ThrewCode(ERROR_INVALID_ARGUMENT)

-----------------------------------------------------------------------------
(* C21 *)

\* The callback invocations of the call.
Applications == {k \in 1..Len(trace) : trace[k].ev = "apply"}

\* C21: map(ok(x), f) is ok(f(x)) and andThen(ok(x), f) is f(x), f being
\* invoked once, with x; on a failure map and andThen return the failure they
\* were given, code and message unchanged, and do not invoke f.
C21_MapAndAndThenLaws ==
  (Done /\ call.op \in {"map", "andThen"}) =>
    LET r == call.arg.result
        f == call.arg.fn IN
    /\ outcome.kind = "return"
    /\ r.ok =>
         /\ trace = <<ApplyEv(f, r.value)>>
         /\ call.op = "map" =>
              (outcome.value.ok /\ outcome.value.value = Apply(f, r.value))
         /\ call.op = "andThen" => outcome.value = Apply(f, r.value)
    /\ ~r.ok =>
         /\ Applications = {}
         /\ ~outcome.value.ok
         /\ outcome.value.error.code = r.error.code
         /\ outcome.value.error.message = r.error.message
         /\ outcome.value = r

\* map() was given a failure and has returned it without invoking f.
C21_Witness ==
  /\ Done
  /\ call.op = "map"
  /\ call.arg.result = errFromReturn(ERROR_GPU_IS_LOST, "Error")
  /\ outcome = Return(errFromReturn(ERROR_GPU_IS_LOST, "Error"))
  /\ trace = <<>>

-----------------------------------------------------------------------------
(* C22 *)

\* The value of a decimal numeral.
RECURSIVE NumeralValue(_)
NumeralValue(chars) ==
  IF chars = <<>> THEN 0
  ELSE 10 * NumeralValue(SubSeq(chars, 1, Len(chars) - 1))
       + (CHOOSE d \in 0..9 : DigitChar(d) = chars[Len(chars)])

\* chars is the numeral a non-negative integer is printed as.
IsNumeral(chars) ==
  /\ chars # <<>>
  /\ \A k \in 1..Len(chars) : \E d \in 0..9 : DigitChar(d) = chars[k]
  /\ Len(chars) > 1 => chars[1] # "0"

\* text is "M.m" for these M and m.
IsMajorDotMinor(text, M, m) ==
  \E p \in 1..Len(text) :
     /\ text[p] = "."
     /\ LET left == SubSeq(text, 1, p - 1)
            right == SubSeq(text, p + 1, Len(text)) IN
        /\ IsNumeral(left) /\ NumeralValue(left) = M
        /\ IsNumeral(right) /\ NumeralValue(right) = m

\* A CUDA version query has returned a success; the integer the native
\* function wrote and the string returned for it.
GotCudaVersion ==
  /\ Done
  /\ call.op \in {"getCudaVersion", "getDriverInfo"}
  /\ outcome.kind = "return" /\ outcome.value.ok

NativeCudaVersion == LastEv.out

CudaVersionString ==
  IF call.op = "getCudaVersion" THEN outcome.value.value
  ELSE outcome.value.value.cudaVersion

\* C22: for the non-negative integer v the native query wrote, getCudaVersion
\* and getDriverInfo().cudaVersion are "M.m" with M = floor(v / 1000) and
\* m = floor((v mod 1000) / 10); for v = 1000 * M + 10 * m with m <= 99
\* these are that M and m.
C22_CudaVersionIsMajorDotMinor ==
  GotCudaVersion =>
    /\ LastEv.ev = "invoke" /\ LastEv.fn = "nvmlSystemGetCudaDriverVersion_v2"
    /\ \E M \in 0..MaxMajor, m \in 0..99 :
         /\ 1000 * M <= NativeCudaVersion /\ NativeCudaVersion < 1000 * (M + 1)
         /\ 10 * m <= NativeCudaVersion - 1000 * M
         /\ NativeCudaVersion - 1000 * M < 10 * (m + 1)
         /\ IsMajorDotMinor(CudaVersionString, M, m)

\* The driver wrote 12040 and getCudaVersion has returned "12.4".
C22_Witness ==
  /\ GotCudaVersion
  /\ call.op = "getCudaVersion"
  /\ NativeCudaVersion = 12040
  /\ CudaVersionString = <<"1", "2", ".", "4">>

-----------------------------------------------------------------------------
(* C26 *)

\* A text query has returned a success; the buffer the native function left
\* and the string returned for it.
GotText ==
  /\ Done
  /\ call.op \in {"getName", "getUUID", "getDriverVersion", "getNvmlVersion"}
  /\ outcome.kind = "return" /\ outcome.value.ok
  /\ EndedOnInvoke /\ LastEv.fn \in TextFns

TextBuffer == LastEv.out
TextReturned == outcome.value.value

\* The positions of the buffer that hold a byte other than NUL.
NonNul(buffer) == {k \in 1..Len(buffer) : buffer[k] # NUL}

\* The position of the last such byte, 0 when there is none.
LastNonNul(buffer) ==
  IF NonNul(buffer) = {} THEN 0
  ELSE CHOOSE k \in NonNul(buffer) : \A j \in NonNul(buffer) : j <= k

\* C26 as stated: the decoded string is the buffer up to and including its
\* last byte that is not NUL.
C26_AsStated ==
  GotText => TextReturned = SubSeq(TextBuffer, 1, LastNonNul(TextBuffer))

\* C26: the decoded string is the buffer with every NUL byte removed,
\* wherever it stands: it holds the bytes other than NUL, in buffer order, and
\* it is the buffer up to its last such byte exactly when no NUL stands
\* before that byte.
C26_DecodedTextIsBufferWithoutNuls ==
  GotText =>
    /\ Len(TextReturned) = Cardinality(NonNul(TextBuffer))
    /\ \A k \in NonNul(TextBuffer) :
         TextReturned[Cardinality({j \in NonNul(TextBuffer) : j <= k})] = TextBuffer[k]
    /\ (TextReturned = SubSeq(TextBuffer, 1, LastNonNul(TextBuffer)))
         <=> (NonNul(TextBuffer) = 1..LastNonNul(TextBuffer))

\* The buffer holds A, NUL, B and getName() has returned "AB".
C26_Witness ==
  /\ GotText
  /\ call.op = "getName"
  /\ TextBuffer = <<"A", NUL, "B">>
  /\ TextReturned = <<"A", "B">>

-----------------------------------------------------------------------------
(* C23 *)

\* The call has returned the success value of operation op.
Succeeded(op) ==
  /\ Done
  /\ call.op = op
  /\ outcome.kind = "return" /\ outcome.value.ok

\* A lookup has handed a Device to the client.
GotDevice == Done /\ call.op \in LookupOps /\ outcome.kind = "return"

\* C23: a Device obtained by index i reports index i and one obtained by UUID
\* reports -1; that index is the `index` of its getBasicInfo() and getStatus()
\* and the `gpuIndex` of every entry of its getProcesses(); element i of a
\* successful getAllGpuStatus() has index i.
C23_DeviceIndexIsLookupIndexOrMinusOne ==
  /\ GotDevice /\ call.op \in {"getDevice", "getByIndex"}
       => outcome.value.index = call.arg.val
  /\ GotDevice /\ call.op \in {"getDeviceByUUID", "getByUUID"}
       => outcome.value.index = -1
  /\ held # NoDev
       => held.index \in (-1)..MaxCount /\ (held.index = -1 \/ held.handle = HandleOf(held.index))
  /\ Succeeded("getBasicInfo") \/ Succeeded("getStatus")
       => outcome.value.value.index = held.index
  /\ Succeeded("getProcesses")
       => \A k \in 1..Len(outcome.value.value) :
            outcome.value.value[k].gpuIndex = held.index
  /\ Succeeded("getAllGpuStatus")
       => \A k \in 1..Len(outcome.value.value) :
            outcome.value.value[k].index = k - 1

\* A Device obtained by UUID has reported its status with index -1.
C23_Witness ==
  /\ Succeeded("getStatus")
  /\ held.index = -1
  /\ outcome.value.value.index = -1

-----------------------------------------------------------------------------
(* C24 *)

\* The native entry point of a lifecycle operation.
LifecycleNative(op) == IF op = "init" THEN "nvmlInit" ELSE "nvmlShutdown"

\* The binding of this call could not reach the native function: the library
\* did not load or did not export the symbol.
Unreachable ==
  \E k \in 1..Len(trace) : trace[k].ev \in {"discover", "load", "resolve"} /\ trace[k].ret # 0

\* C24: every init() and every shutdown() goes to its binding and, unless the
\* library or the symbol cannot be had, invokes the native entry point exactly
\* once, whatever the flag was at the call: an init() while initialized and a
\* shutdown() while not initialized are not short-circuited.  A repeated
\* init() that the native layer rejects leaves the flag set.
C24_LifecycleCallsAlwaysReachNative ==
  (Done /\ call.op \in {"init", "shutdown"}) =>
     /\ trace # <<>>
     /\ ~Unreachable =>
          /\ Len(Invokes) = 1
          /\ Invokes[1].fn = LifecycleNative(call.op)
     /\ (call.op = "init" /\ call.initAtCall) => ~Unreachable
     /\ (call.op = "init" /\ call.initAtCall /\ outcome.kind = "throw") => initialized

\* init() while initialized was rejected by the native layer and the flag is
\* still set.
C24_Witness ==
  /\ Done
  /\ call.op = "init"
  /\ call.initAtCall
  /\ EndedOnInvoke /\ LastEv.fn = "nvmlInit" /\ LastEv.ret = ERROR_GPU_IS_LOST
  /\ outcome.kind = "throw"
  /\ initialized

\* shutdown() while not initialized has invoked nvmlShutdown.
C24_WitnessShutdown ==
  /\ Done
  /\ call.op = "shutdown"
  /\ ~call.initAtCall
  /\ EndedOnInvoke /\ LastEv.fn = "nvmlShutdown"

-----------------------------------------------------------------------------
(* C25 *)

\* The extraction has been applied; what it was applied to and what it gave.
Extracted == Done /\ call.op = "extractProcesses"
Written == call.arg
Decoded == outcome.value

Min(a, b) == IF a <= b THEN a ELSE b

\* The array positions (1-based) below the returned count and the capacity
\* that hold a nonzero pid.
Live(out) ==
  {k \in 1..Min(out.count, MAX_PROCESSES) : k <= Len(out.infos) /\ out.infos[k].pid # 0}

\* C25: the decoded list holds exactly the entries at the indices below
\* min(count, 128) whose pid is nonzero, in index order; an entry with pid 0
\* below the count is skipped and the entries after it are still decoded.
C25_DecodedListIsNonzeroPidEntriesBelowCount ==
  Extracted =>
    /\ outcome.kind = "return"
    /\ Len(Decoded) = Cardinality(Live(Written))
    /\ \A k \in Live(Written) :
         Decoded[Cardinality({j \in Live(Written) : j <= k})] = Written.infos[k]

\* The count exceeds the capacity, slot 0 is empty, and the entries of slot 1
\* and of the last slot were decoded.
C25_Witness ==
  /\ Extracted
  /\ Written.count = 2 * MAX_PROCESSES
  /\ Written.infos[1].pid = 0
  /\ Len(Decoded) = 2
  /\ Decoded[1] = Written.infos[2]
  /\ Decoded[2] = Written.infos[MAX_PROCESSES]

-----------------------------------------------------------------------------
(* C27 *)

\* The device count getSystemSnapshot read for its process loop: the last
\* count the call read.
ProcessLoopCount ==
  trace[CHOOSE k \in CountQueries : \A j \in CountQueries : j <= k].out

\* The entries of list that belong to device index d.
OfDevice(list, d) == SelectSeq(list, LAMBDA p : p.gpuIndex = d)

\* res is what getProcesses() returns for enumerations raw: one entry per
\* distinct pid, in the order of first occurrence, with its memory figure.
IsProcessListOf(res, raw) ==
  /\ PidsOf(res) = PidsOf(raw)
  /\ Len(res) = Cardinality(PidsOf(raw))
  /\ \A i \in 1..Len(res), j \in 1..Len(res) :
       i < j => FirstAt(raw, res[i].pid) < FirstAt(raw, res[j].pid)
  /\ \A j \in 1..Len(res) :
       res[j].usedMemoryMiB = raw[FirstAt(raw, res[j].pid)].usedGpuMemory \div MiB

\* C27: the processes of a successful getSystemSnapshot are the process lists
\* of the devices 0 .. count-1 one after the other, in increasing device
\* index; no two entries share both gpuIndex and pid, and a pid that runs on
\* several devices has one entry for each of them.
C27_SnapshotProcessesConcatenatePerDeviceLists ==
  Succeeded("getSystemSnapshot") =>
    LET processes == outcome.value.value.processes
        count == ProcessLoopCount IN
    /\ \A i \in 1..Len(processes), j \in 1..Len(processes) :
         i < j => /\ processes[i].gpuIndex <= processes[j].gpuIndex
                  /\ ~(processes[i].gpuIndex = processes[j].gpuIndex
                        /\ processes[i].pid = processes[j].pid)
    /\ \A k \in 1..Len(processes) : processes[k].gpuIndex \in 0..(count - 1)
    /\ \A d \in 0..(count - 1) :
         IsProcessListOf(OfDevice(processes, d), RawOf(Dev(HandleOf(d), d)))

\* A snapshot of two devices lists process 7 once for device 0 and once for
\* device 1.
C27_Witness ==
  /\ Succeeded("getSystemSnapshot")
  /\ LET processes == outcome.value.value.processes IN
     /\ Len(processes) = 4
     /\ processes[1].pid = 7 /\ processes[1].gpuIndex = 0
     /\ processes[3].pid = 7 /\ processes[3].gpuIndex = 1

-----------------------------------------------------------------------------
(* C28 *)

\* The call ended with an NvmlError, thrown or inside a Result failure.
EndedWithNvmlError ==
  /\ Done
  /\ \/ outcome.kind = "throw" /\ outcome.error.name = "NvmlError"
     \/ /\ outcome.kind = "return"
        /\ call.op \notin LookupOps \cup
             {"init", "shutdown", "isInitialized", "getDeviceCount", "getAllDevices"}
        /\ ~outcome.value.ok
        /\ outcome.value.error.name = "NvmlError"

TheNvmlError == IF outcome.kind = "throw" THEN outcome.error ELSE outcome.value.error

\* The call ended on a handle lookup that reported success and a null handle.
NullHandleOnSuccess ==
  /\ EndedOnInvoke
  /\ LastEv.fn \in HandleFns
  /\ LastEv.ret = SUCCESS
  /\ LastEv.out = NullHandle

\* C28 as stated: every NvmlError a call ends with carries a nonzero status.
C28_AsStated ==
  EndedWithNvmlError => TheNvmlError.code # SUCCESS

\* C28, where it fails: an NvmlError carries the status SUCCESS exactly when
\* the call ended on a handle lookup that reported success with a null handle.
C28_ZeroCodeOnlyFromNullHandle ==
  EndedWithNvmlError => (TheNvmlError.code = SUCCESS <=> NullHandleOnSuccess)

\* Device.getByIndex(0) threw an NvmlError with code 0 after the native lookup
\* reported success and a null handle.
C28_Witness ==
  /\ EndedWithNvmlError
  /\ call.op = "getByIndex"
  /\ NullHandleOnSuccess
  /\ TheNvmlError.code = SUCCESS

-----------------------------------------------------------------------------
(* C29 *)

\* The device indices of the entries of a list, by the field that holds them.
GpuIndices(gpus) == {gpus[k].index : k \in 1..Len(gpus)}
ProcessIndices(processes) == {processes[k].gpuIndex : k \in 1..Len(processes)}

\* The counts the call read, in the order it read them.
CountsRead ==
  LET reads == SelectSeq(trace, LAMBDA e : e.ev = "invoke" /\ e.fn = "nvmlDeviceGetCount") IN
  [k \in 1..Len(reads) |-> reads[k].out]

\* C29 as stated: in a successful getSystemSnapshot every process entry's
\* gpuIndex is the index of some entry of gpus, whatever counts the native
\* layer reported during the call.
C29_AsStated ==
  Succeeded("getSystemSnapshot") =>
    ProcessIndices(outcome.value.value.processes) \subseteq GpuIndices(outcome.value.value.gpus)

\* C29, where it holds: when the counts the call read agree, the processes
\* belong to devices of gpus.
C29_ConsistentWhenCountIsSteady ==
  (Succeeded("getSystemSnapshot") /\ \A k \in 1..Len(CountsRead) : CountsRead[k] = CountsRead[1]) =>
    ProcessIndices(outcome.value.value.processes) \subseteq GpuIndices(outcome.value.value.gpus)

\* The count grew from 1 to 2 during the call: gpus has device 0 only and
\* processes has an entry of device 1.
C29_Witness ==
  /\ Succeeded("getSystemSnapshot")
  /\ CountsRead = <<1, 2>>
  /\ GpuIndices(outcome.value.value.gpus) = {0}
  /\ 1 \in ProcessIndices(outcome.value.value.processes)

-----------------------------------------------------------------------------
(* C30 *)

\* findLibraryPath() has returned.
Discovered == Done /\ call.op = "findLibraryPath"

\* The files the call tested with existsSync, and whether it warned.
Probed == {trace[k].fn : k \in {j \in 1..Len(trace) : trace[j].ev = "existsSync"}}
Warned == \E k \in 1..Len(trace) : trace[k].ev = "warn"

=============================================================================
